---- MODULE Spec2Model ----
(***************************************************************************)
(* A model of the notion_assistant memory package: the MemoryManager       *)
(* (memory/manager.py), the IntentRecognizer (memory/intent.py), the       *)
(* ConversationManager (memory/conversation.py) and the LogEntryProcessor  *)
(* (memory/processor.py).                                                  *)
(*                                                                         *)
(* Representation choices:                                                 *)
(*  - a Python str is a TLA+ string, taken apart with Len and SubSeq; the   *)
(*    value None of an Optional[str] is the string "<None>";               *)
(*  - a naive datetime is an integer count of clock ticks, TicksPerDay     *)
(*    ticks to the day; timedelta.days is the floor of ticks/TicksPerDay;  *)
(*  - a float score is a fixed-point integer, Scale units to 1.0; the      *)
(*    argument of math.exp is counted in tenths, so lambda_decay = 0.1 is  *)
(*    1;                                                                   *)
(*  - str(uuid.uuid4()) is a member of IdSpace that was never issued (the  *)
(*    first such, the ids being interchangeable);                          *)
(*  - datetime.now() is read once for every result that search scores, so  *)
(*    the clock may advance between two results of one search;             *)
(*  - an intent confidence is counted in thousandths; a combined score     *)
(*    is counted in 1/CombinedUnit, and a normalised score is the exact    *)
(*    fraction [num, den], compared with a threshold by Exceeds;           *)
(*  - a dict is the sequence of its items [k, v] in insertion order; the   *)
(*    iteration order of a set of strings is the fixed order SetOrder;     *)
(*  - a raised exception is the name of its class, ExceptionBases giving   *)
(*    its base classes; only subclasses of Exception are raised;           *)
(*  - the answer of the language model is an input of the call: a text,    *)
(*    or an exception of the HTTP client;                                  *)
(*  - the latest insights file is the state variable insights_file;        *)
(*  - of the date patterns of _extract_entities only YYYY-MM-DD is         *)
(*    modelled; no input holds a date of the other two shapes;             *)
(*  - manager_attrs is the set of the attributes client and collection     *)
(*    that the MemoryManager object has; the records on disk and the       *)
(*    records of the collection are the one variable collection.           *)
(*                                                                         *)
(* Spec follows the MemoryManager, SpecChat the conversation on an empty   *)
(* store, SpecTurn the conversation on a store that holds entries,         *)
(* SpecIntent one call of a pure operation, SpecClear clear_collection.    *)
(***************************************************************************)
EXTENDS Integers, Sequences, FiniteSets, TLC

VARIABLES collection, issued, deleted, now, last,
          conversation_history, chat_calls, debug, insights_file, pending,
          manager_attrs

chat_vars == <<conversation_history, chat_calls, debug, insights_file>>

vars == <<collection, issued, deleted, now, last, chat_vars, pending, manager_attrs>>

-----------------------------------------------------------------------------
(* Bounds of the model *)

MaxIds == 2
MaxTicks == 2
MaxTurns == 2

-----------------------------------------------------------------------------
(* Numbers *)

Scale == 10000

lambda_decay == 1

recency_weight == 2000

Abs(x) == IF x < 0 THEN -x ELSE x

Min(a, b) == IF a <= b THEN a ELSE b

-----------------------------------------------------------------------------
(* Strings *)

None == "<None>"

OrEmpty(text) == IF text = None THEN "" ELSE text

(* The latest insights file, as load_latest_insights reads it: no file gives
   the error report; parses is false for a file that is not JSON; empty is a
   report that is falsy; a missing "insights" or "themes" key of a window is
   the empty list *)
NoInsights ==
    [parses |-> TRUE, empty |-> FALSE, has_error |-> TRUE, has_windows |-> FALSE,
     windows |-> <<>>]

CorruptInsights ==
    [parses |-> FALSE, empty |-> FALSE, has_error |-> FALSE, has_windows |-> FALSE,
     windows |-> <<>>]

ParserInsights ==
    [parses |-> TRUE, empty |-> FALSE, has_error |-> FALSE, has_windows |-> TRUE,
     windows |-> <<[insights |-> <<"ship the parser">>, themes |-> <<>>]>>]

S_old_note == "old note"

S_new_note == "new notes"

S_note == "note"

-----------------------------------------------------------------------------
(* Dates *)

TicksPerDay == 2

DateTime(day, tick) == day * TicksPerDay + tick

StartNow == DateTime(1, 1)

MaxNow == StartNow + MaxTicks

DayNames ==
    <<"2024-03-26", "2024-03-27", "2024-03-28", "2024-03-29", "2024-03-30",
      "2024-03-31">>

StrptimeTable ==
    [s \in {DayNames[i] : i \in 1..Len(DayNames)} \cup {"2024-3-29"} |->
        IF s = "2024-3-29" THEN DateTime(3, 0)
        ELSE DateTime((CHOOSE i \in 1..Len(DayNames) : DayNames[i] = s) - 1, 0)]

strptime_raises(date_str) == date_str \notin DOMAIN StrptimeTable

strptime(date_str) == StrptimeTable[date_str]

isoformat(dt) == [day |-> dt \div TicksPerDay, tick |-> dt % TicksPerDay]

fromisoformat(iso) == iso.day * TicksPerDay + iso.tick

timedelta_days(delta) == delta \div TicksPerDay

strftime(dt) == DayNames[(dt \div TicksPerDay) + 1]

-----------------------------------------------------------------------------
(* Embedding provider and vector store *)

EmbedDim == 21

generate_embedding(text) == Len(text) % EmbedDim

CosineDistance(e1, e2) == Abs(e1 - e2) * ((2 * Scale) \div (EmbedDim - 1))

IdNames == <<"uuid-1", "uuid-2", "uuid-3", "uuid-4", "uuid-5", "uuid-6">>

IdSpace == {IdNames[i] : i \in 1..MaxIds}

FirstOf(S) ==
    LET idx == {i \in 1..MaxIds : IdNames[i] \in S}
    IN {IdNames[i] : i \in {j \in idx : \A k \in idx : j <= k}}

Uuid4Reusing(coll, iss) == FirstOf(IdSpace \ DOMAIN coll)

uuid4(coll, iss) == FirstOf(IdSpace \ iss)

CollectionAdd(coll, id, embedding, document, metadata) ==
    [i \in DOMAIN coll \cup {id} |->
        IF i = id
        THEN [embedding |-> embedding, document |-> document, metadata |-> metadata]
        ELSE coll[i]]

CollectionGetIds(coll, id) == IF id \in DOMAIN coll THEN <<id>> ELSE <<>>

CollectionUpdate(coll, id, embedding, document, metadata) ==
    IF id \in DOMAIN coll
    THEN [coll EXCEPT ![id] = [embedding |-> embedding, document |-> document,
                               metadata |-> metadata]]
    ELSE coll

CollectionDelete(coll, id) == [i \in DOMAIN coll \ {id} |-> coll[i]]

InjectiveSeqs(S, n) ==
    {s \in [1..n -> S] : \A i, j \in 1..n : i # j => s[i] # s[j]}

CollectionGetLimit(coll, limit) ==
    InjectiveSeqs(DOMAIN coll, Min(limit, Cardinality(DOMAIN coll)))

CollectionQuery(coll, query_embedding, n_results) ==
    LET dist(i) == CosineDistance(query_embedding, coll[i].embedding)
        n == Min(n_results, Cardinality(DOMAIN coll))
    IN {s \in InjectiveSeqs(DOMAIN coll, n) :
            /\ \A i \in 1..(n - 1) : dist(s[i]) <= dist(s[i + 1])
            /\ \A i \in 1..n : \A j \in DOMAIN coll \ {s[k] : k \in 1..n} :
                   dist(s[i]) <= dist(j)}

-----------------------------------------------------------------------------
(* list.sort(key=..., reverse=True): stable, descending *)

InsertDesc(sorted, x) ==
    LET p == Cardinality({i \in 1..Len(sorted) : sorted[i].key >= x.key})
    IN SubSeq(sorted, 1, p) \o <<x>> \o SubSeq(sorted, p + 1, Len(sorted))

SortDesc(s, keys) ==
    LET f[i \in 0..Len(s)] ==
            IF i = 0 THEN <<>>
            ELSE InsertDesc(f[i - 1], [key |-> keys[i], val |-> s[i]])
    IN [i \in 1..Len(s) |-> f[Len(s)][i].val]

-----------------------------------------------------------------------------
(* MemoryManager *)

RECURSIVE ExpTenths(_)
ExpTenths(k) ==
    IF k = 0 THEN Scale
    ELSE IF k < 0 THEN (ExpTenths(k + 1) * 9048) \div Scale
    ELSE (ExpTenths(k - 1) * 11052) \div Scale

math_exp(arg) == ExpTenths(arg)

days_old(entry_date, clock) == timedelta_days(clock - entry_date)

calculate_recency_score(entry_date, clock) ==
    math_exp(-(lambda_decay * days_old(entry_date, clock)))

StoreEntry(coll, entry, entry_id) ==
    CollectionAdd(coll, entry_id, generate_embedding(OrEmpty(entry.raw_text)),
                  OrEmpty(entry.raw_text), [date |-> isoformat(entry.date)])

UpdateEntryFound(coll, entry_id) == CollectionGetIds(coll, entry_id) # <<>>

UpdateEntryUpsert(coll, entry_id, new_text) ==
    CollectionAdd(coll, entry_id, generate_embedding(new_text), new_text,
                  IF entry_id \in DOMAIN coll THEN coll[entry_id].metadata
                  ELSE [date |-> isoformat(0)])

UpdateEntryKeepDocument(coll, entry_id, new_text) ==
    IF ~UpdateEntryFound(coll, entry_id) THEN coll
    ELSE CollectionUpdate(coll, entry_id, generate_embedding(new_text),
                          coll[entry_id].document, coll[entry_id].metadata)

UpdateEntry(coll, entry_id, new_text) ==
    IF ~UpdateEntryFound(coll, entry_id) THEN coll
    ELSE CollectionUpdate(coll, entry_id, generate_embedding(new_text), new_text,
                          coll[entry_id].metadata)

DeleteEntryFound(coll, entry_id) == CollectionGetIds(coll, entry_id) # <<>>

DeleteEntry(coll, entry_id) ==
    IF ~DeleteEntryFound(coll, entry_id) THEN coll
    ELSE CollectionDelete(coll, entry_id)

GetAllEntriesUnsorted(coll, got) ==
    [i \in 1..Len(got) |->
        [id |-> got[i],
         date |-> fromisoformat(coll[got[i]].metadata.date),
         raw_text |-> coll[got[i]].document]]

GetAllEntries(coll, got) ==
    LET entries == [i \in 1..Len(got) |->
                       [id |-> got[i],
                        date |-> fromisoformat(coll[got[i]].metadata.date),
                        raw_text |-> coll[got[i]].document]]
    IN SortDesc(entries, [i \in 1..Len(got) |-> entries[i].date])

SearchResult(coll, query, entry_id, clock) ==
    LET similarity_score == CosineDistance(generate_embedding(query),
                                           coll[entry_id].embedding)
        entry_date == fromisoformat(coll[entry_id].metadata.date)
        recency_score == calculate_recency_score(entry_date, clock)
        normalized_similarity == Scale - (similarity_score \div 2)
        final_score == normalized_similarity
                         + ((recency_weight * recency_score) \div Scale)
    IN [entry |-> [id |-> entry_id, date |-> entry_date,
                   raw_text |-> coll[entry_id].document],
        similarity_score |-> normalized_similarity,
        final_score |-> final_score]

SearchUnsorted(coll, query, order, reads) ==
    [i \in 1..Len(order) |-> SearchResult(coll, query, order[i], reads[i])]

Search(coll, query, order, reads) ==
    LET search_results ==
            [i \in 1..Len(order) |-> SearchResult(coll, query, order[i], reads[i])]
    IN SortDesc(search_results,
                [i \in 1..Len(order) |-> search_results[i].final_score])

ClockReads(clock, n) ==
    {r \in [1..n -> clock..MaxNow] :
        /\ n > 0 => r[1] = clock
        /\ \A i \in 1..(n - 1) : r[i] <= r[i + 1]}

LastRead(clock, reads) == IF Len(reads) = 0 THEN clock ELSE reads[Len(reads)]

-----------------------------------------------------------------------------
(* str methods and the shapes of regular expression the code uses *)

Digits == "0123456789"

CharAt(s, i) == IF i < 1 \/ i > Len(s) THEN "" ELSE SubSeq(s, i, i)

Rest(s) == SubSeq(s, 2, Len(s))

LowerOf ==
    LET uppercase == "ABCDEFGHIJKLMNOPQRSTUVWXYZ"
        lowercase == "abcdefghijklmnopqrstuvwxyz"
    IN [c \in {CharAt(uppercase, i) : i \in 1..26} |->
           CharAt(lowercase, CHOOSE i \in 1..26 : CharAt(uppercase, i) = c)]

UpperOf ==
    [c \in {LowerOf[u] : u \in DOMAIN LowerOf} |->
        CHOOSE u \in DOMAIN LowerOf : LowerOf[u] = c]

OccursAt(s, lit, i) ==
    /\ i >= 1
    /\ i + Len(lit) - 1 <= Len(s)
    /\ SubSeq(s, i, i + Len(lit) - 1) = lit

Contains(s, lit) == \E i \in 1..(Len(s) - Len(lit) + 1) : OccursAt(s, lit, i)

StartsWith(s, lit) == OccursAt(s, lit, 1)

IsSpace(c) == c \in {" ", "\n", "\t"}

DigitChars == {CharAt(Digits, i) : i \in 1..Len(Digits)}

WordChars == DOMAIN LowerOf \cup DOMAIN UpperOf \cup DigitChars \cup {"_"}

RECURSIVE lower(_)
lower(s) ==
    IF s = "" THEN ""
    ELSE (IF CharAt(s, 1) \in DOMAIN LowerOf THEN LowerOf[CharAt(s, 1)] ELSE CharAt(s, 1))
           \o lower(Rest(s))

RECURSIVE upper(_)
upper(s) ==
    IF s = "" THEN ""
    ELSE (IF CharAt(s, 1) \in DOMAIN UpperOf THEN UpperOf[CharAt(s, 1)] ELSE CharAt(s, 1))
           \o upper(Rest(s))

RECURSIVE lstrip(_)
lstrip(s) == IF s # "" /\ IsSpace(CharAt(s, 1)) THEN lstrip(Rest(s)) ELSE s

RECURSIVE rstrip(_)
rstrip(s) ==
    IF s # "" /\ IsSpace(CharAt(s, Len(s)))
    THEN rstrip(SubSeq(s, 1, Len(s) - 1)) ELSE s

strip(s) == rstrip(lstrip(s))

FirstIndex(s, lit) ==
    CHOOSE i \in 1..Len(s) : OccursAt(s, lit, i) /\ \A j \in 1..(i - 1) : ~OccursAt(s, lit, j)

RECURSIVE split(_, _)
split(s, sep) ==
    IF ~Contains(s, sep) THEN <<s>>
    ELSE <<SubSeq(s, 1, FirstIndex(s, sep) - 1)>>
           \o split(SubSeq(s, FirstIndex(s, sep) + Len(sep), Len(s)), sep)

RECURSIVE replace(_, _, _)
replace(s, old, new) ==
    IF ~Contains(s, old) THEN s
    ELSE SubSeq(s, 1, FirstIndex(s, old) - 1) \o new
           \o replace(SubSeq(s, FirstIndex(s, old) + Len(old), Len(s)), old, new)

(* re.search of "^(a1|a2|...)", "(a1|...)", "(a1|...)$" and "(a1|...).*(b1|...)";
   "." matches no newline *)
re_search(rule, s) ==
    CASE rule.kind = "prefix" -> \E a \in rule.a : StartsWith(s, a)
      [] rule.kind = "suffix" -> \E a \in rule.a : OccursAt(s, a, Len(s) - Len(a) + 1)
      [] rule.kind = "search" -> \E a \in rule.a : Contains(s, a)
      [] rule.kind = "then" ->
            \E a \in rule.a : \E b \in rule.b :
              \E i \in 1..Len(s) : \E j \in 1..Len(s) :
                /\ OccursAt(s, a, i)
                /\ OccursAt(s, b, j)
                /\ i + Len(a) <= j
                /\ ~Contains(SubSeq(s, i + Len(a), j - 1), "\n")

(* re.finditer of "\b(w1|w2|...)\b" with re.IGNORECASE, run on the lowered
   text: the matches from left to right, as start and end in Python's 0-based
   positions *)
WordAt(lowered, words, i) ==
    {w \in words :
        /\ OccursAt(lowered, w, i)
        /\ CharAt(lowered, i - 1) \notin WordChars
        /\ CharAt(lowered, i + Len(w)) \notin WordChars}

RECURSIVE finditer_words(_, _, _)
finditer_words(lowered, words, from) ==
    IF from > Len(lowered) THEN <<>>
    ELSE IF WordAt(lowered, words, from) = {}
    THEN finditer_words(lowered, words, from + 1)
    ELSE LET w == CHOOSE w \in WordAt(lowered, words, from) : TRUE
         IN <<[start |-> from - 1, end |-> from - 1 + Len(w)]>>
              \o finditer_words(lowered, words, from + Len(w))

(* re.finditer of "\b\d{4}-\d{2}-\d{2}\b" *)
IsoDateAt(s, i) ==
    /\ i + 9 <= Len(s)
    /\ \A k \in {0, 1, 2, 3, 5, 6, 8, 9} : CharAt(s, i + k) \in DigitChars
    /\ CharAt(s, i + 4) = "-"
    /\ CharAt(s, i + 7) = "-"
    /\ CharAt(s, i - 1) \notin WordChars
    /\ CharAt(s, i + 10) \notin WordChars

RECURSIVE finditer_iso_date(_, _)
finditer_iso_date(s, from) ==
    IF from > Len(s) THEN <<>>
    ELSE IF ~IsoDateAt(s, from) THEN finditer_iso_date(s, from + 1)
    ELSE <<[start |-> from - 1, end |-> from + 9]>> \o finditer_iso_date(s, from + 10)

-----------------------------------------------------------------------------
(* More of str, and exceptions *)

RECURSIVE SplitWords(_, _, _)
SplitWords(s, i, word) ==
    IF i > Len(s) THEN (IF word = "" THEN <<>> ELSE <<word>>)
    ELSE IF IsSpace(CharAt(s, i))
    THEN (IF word = "" THEN <<>> ELSE <<word>>) \o SplitWords(s, i + 1, "")
    ELSE SplitWords(s, i + 1, word \o CharAt(s, i))

(* str.split() with no separator *)
split_whitespace(s) == SplitWords(s, 1, "")

RECURSIVE join(_, _)
join(sep, parts) ==
    IF parts = <<>> THEN ""
    ELSE IF Len(parts) = 1 THEN parts[1]
    ELSE parts[1] \o sep \o join(sep, Tail(parts))

RECURSIVE str_int(_)
str_int(n) ==
    IF n < 0 THEN "-" \o str_int(-n)
    ELSE IF n < 10 THEN CharAt(Digits, n + 1)
    ELSE str_int(n \div 10) \o CharAt(Digits, (n % 10) + 1)

(* format(x, ".2f") of the score num/den, ties to even *)
format_2f(score) ==
    LET scaled == Abs(score.num) * 100
        q == scaled \div score.den
        r == scaled % score.den
        rounded == IF 2 * r > score.den THEN q + 1
                   ELSE IF 2 * r < score.den THEN q
                   ELSE q + (q % 2)
    IN (IF score.num < 0 THEN "-" ELSE "")
         \o str_int(rounded \div 100) \o "."
         \o str_int((rounded % 100) \div 10) \o str_int(rounded % 10)

(* The exception classes the model raises, each with its base classes and
   the text str(e) gives *)
ExceptionBases ==
    [exc \in {"ConnectionError", "HTTPError", "JSONDecodeError", "RuntimeError"} |->
        CASE exc = "ConnectionError" ->
                {"ConnectionError", "RequestException", "OSError", "Exception",
                 "BaseException"}
          [] exc = "HTTPError" ->
                {"HTTPError", "RequestException", "OSError", "Exception",
                 "BaseException"}
          [] exc = "JSONDecodeError" ->
                {"JSONDecodeError", "ValueError", "Exception", "BaseException"}
          [] exc = "RuntimeError" ->
                {"RuntimeError", "Exception", "BaseException"}]

isinstance(exc, class) == class \in ExceptionBases[exc]

str_exc(exc) ==
    CASE exc = "ConnectionError" -> "connection refused"
      [] exc = "HTTPError" -> "500 Server Error"
      [] exc = "JSONDecodeError" -> "Expecting value: line 1 column 1 (char 0)"
      [] exc = "RuntimeError" -> "collection unavailable"

-----------------------------------------------------------------------------
(* Python dict: the items in insertion order *)

DictHas(d, k) == \E i \in 1..Len(d) : d[i].k = k

DictGet(d, k, default) ==
    IF DictHas(d, k) THEN d[CHOOSE i \in 1..Len(d) : d[i].k = k].v ELSE default

DictSet(d, k, v) ==
    IF DictHas(d, k)
    THEN [i \in 1..Len(d) |-> IF d[i].k = k THEN [k |-> k, v |-> v] ELSE d[i]]
    ELSE Append(d, [k |-> k, v |-> v])

RECURSIVE Sum(_)
Sum(vals) == IF vals = <<>> THEN 0 ELSE Head(vals) + Sum(Tail(vals))

-----------------------------------------------------------------------------
(* IntentRecognizer.  A confidence is counted in thousandths; a combined
   score, weighted 0.3/0.2/0.5, in units of 1/10000; a normalized score is
   the fraction num/den. *)

IntentType ==
    <<"GREETING", "QUESTION", "RETRIEVAL", "MEMORY_GAIN", "MEMORY_LOSS", "COMMAND",
      "CLARIFICATION", "OPINION", "CONTINUITY", "FEEDBACK", "UNKNOWN">>

patterns ==
    <<[intent |-> "GREETING",
       rules |-> <<
           [kind |-> "prefix",
            a |-> {"hey", "hi", "hello", "greetings", "yo", "howdy",
                   "what's up", "sup"},
            b |-> {}],
           [kind |-> "prefix",
            a |-> {"good morning", "good afternoon", "good evening",
                   "good day", "happy morning", "happy afternoon",
                   "happy evening", "happy day"},
            b |-> {}]>>],
      [intent |-> "QUESTION",
       rules |-> <<
           [kind |-> "suffix",
            a |-> {"?"},
            b |-> {}],
           [kind |-> "prefix",
            a |-> {"what", "when", "where", "who", "whom", "whose",
                   "which", "why", "how"},
            b |-> {}],
           [kind |-> "prefix",
            a |-> {"can ", "could ", "would ", "should ", "is ", "are ",
                   "am ", "was ", "were ", "do ", "does ", "did "},
            b |-> {}]>>],
      [intent |-> "RETRIEVAL",
       rules |-> <<
           [kind |-> "then",
            a |-> {"tell", "show", "find", "search", "look", "get"},
            b |-> {"about", "for"}],
           [kind |-> "then",
            a |-> {"what", "when"},
            b |-> {"happened", "occurred", "took place"}],
           [kind |-> "search",
            a |-> {"remember", "recall", "retrieve"},
            b |-> {}],
           [kind |-> "then",
            a |-> {"find", "search", "look"},
            b |-> {"information", "data"}]>>],
      [intent |-> "MEMORY_GAIN",
       rules |-> <<
           [kind |-> "search",
            a |-> {"important", "remember", "note", "save", "keep",
                   "store"},
            b |-> {}],
           [kind |-> "then",
            a |-> {"this", "that"},
            b |-> {"matters", "is important", "is significant"}],
           [kind |-> "search",
            a |-> {"don't forget", "make sure", "be sure"},
            b |-> {}],
           [kind |-> "search",
            a |-> {"take note", "write", "jot", "log"},
            b |-> {}]>>],
      [intent |-> "MEMORY_LOSS",
       rules |-> <<
           [kind |-> "search",
            a |-> {"forget", "ignore", "disregard", "remove", "delete"},
            b |-> {}],
           [kind |-> "search",
            a |-> {"not important", "doesn't matter", "irrelevant"},
            b |-> {}],
           [kind |-> "then",
            a |-> {"don't", "do not"},
            b |-> {"care", "need", "want"}],
           [kind |-> "then",
            a |-> {"stop", "quit"},
            b |-> {"thinking", "talking"}]>>],
      [intent |-> "COMMAND",
       rules |-> <<
           [kind |-> "prefix",
            a |-> {"do", "please", "can you", "could you"},
            b |-> {}],
           [kind |-> "prefix",
            a |-> {"list", "show", "find", "get", "create", "make",
                   "update", "change", "modify", "delete"},
            b |-> {}],
           [kind |-> "search",
            a |-> {"run", "execute", "perform", "implement"},
            b |-> {}]>>]>>

keywords ==
    <<[intent |-> "RETRIEVAL",
       words |-> <<"information", "details", "specifics", "data",
                  "knowledge", "learn", "remember", "recall", "lookup",
                  "check", "find out">>],
      [intent |-> "MEMORY_GAIN",
       words |-> <<"important", "significant", "crucial", "essential",
                  "key", "remember", "note", "save", "keep track",
                  "don't forget", "highlight", "mark", "flag", "store",
                  "archive", "preserve">>],
      [intent |-> "MEMORY_LOSS",
       words |-> <<"forget", "ignore", "disregard", "unimportant",
                  "irrelevant", "useless", "pointless", "meaningless",
                  "trivial", "delete", "remove", "erase", "discard",
                  "trash", "dump", "clear">>]>>

PatternMatches(rules, cleaned_message) ==
    Cardinality({i \in 1..Len(rules) : re_search(rules[i], cleaned_message)})

ApplyPatternMatchingNoDefault(message) ==
    LET cleaned_message == strip(lower(message))
        results == [i \in 1..Len(patterns) |->
                       [k |-> patterns[i].intent,
                        v |-> Min(250 * PatternMatches(patterns[i].rules,
                                                       cleaned_message), 900)]]
    IN SelectSeq(results, LAMBDA r : r.v > 0)

apply_pattern_matching(message) ==
    LET cleaned_message == strip(lower(message))
        results == [i \in 1..Len(patterns) |->
                       [k |-> patterns[i].intent,
                        v |-> Min(250 * PatternMatches(patterns[i].rules,
                                                       cleaned_message), 900)]]
    IN IF SelectSeq(results, LAMBDA r : r.v > 0) = <<>>
       THEN <<[k |-> "UNKNOWN", v |-> 300]>>
       ELSE SelectSeq(results, LAMBDA r : r.v > 0)

analyze_keywords(message) ==
    LET message_lower == lower(message)
        matches(kw) == Cardinality({i \in 1..Len(kw.words) :
                                       Contains(message_lower, lower(kw.words[i]))})
        results == [i \in 1..Len(keywords) |->
                       [k |-> keywords[i].intent,
                        v |-> Min(300 + (matches(keywords[i]) * 100), 800)]]
    IN SelectSeq(results, LAMBDA r : r.v > 300)

Entities(type, s, spans, fixed_value, confidence) ==
    [i \in 1..Len(spans) |->
        [type |-> type,
         value |-> IF fixed_value = None
                   THEN SubSeq(s, spans[i].start + 1, spans[i].end)
                   ELSE fixed_value,
         confidence |-> confidence,
         start_pos |-> spans[i].start,
         end_pos |-> spans[i].end]]

extract_entities(message) ==
    LET importance_words ==
            {"important", "critical", "crucial", "essential", "key",
             "significant", "vital", "major"}
        priority_phrases ==
            {"high-priority", "high priority", "high\npriority", "high	priority",
             "top-priority", "top priority", "top\npriority", "top	priority"}
        positive_terms ==
            {"good", "great", "excellent", "amazing", "wonderful", "positive",
             "love", "like", "enjoy", "happy", "glad"}
        negative_terms ==
            {"bad", "terrible", "awful", "horrible", "negative", "hate",
             "dislike", "sad", "upset", "disappointed"}
    IN Entities("DATE", message, finditer_iso_date(message, 1), None, 800)
         \o Entities("IMPORTANCE", message,
                     finditer_words(lower(message), importance_words, 1), None, 700)
         \o Entities("IMPORTANCE", message,
                     finditer_words(lower(message), priority_phrases, 1), None, 700)
         \o Entities("SENTIMENT", message,
                     finditer_words(lower(message), positive_terms, 1), "positive", 600)
         \o Entities("SENTIMENT", message,
                     finditer_words(lower(message), negative_terms, 1), "negative", 600)

(* float(text) by table: the literals the modelled backend answers with; any other
   text raises ValueError *)
FloatTable ==
    [t \in {"0", "0.1", "0.2", "0.3", "0.6", "0.8", "0.9", "1.0", "1.5", "-0.5"} |->
        CASE t = "0" -> 0
          [] t = "0.1" -> 100
          [] t = "0.2" -> 200
          [] t = "0.3" -> 300
          [] t = "0.6" -> 600
          [] t = "0.8" -> 800
          [] t = "0.9" -> 900
          [] t = "1.0" -> 1000
          [] t = "1.5" -> 1500
          [] t = "-0.5" -> -500]

(* without the lookup of the name in IntentType: any name is recorded *)
ParseIntentLineAnyName(results, line) ==
    IF ~StartsWith(line, "INTENT:") THEN results
    ELSE LET parts == split(strip(replace(line, "INTENT:", "")), ",")
         IN IF Len(parts) < 2 THEN results
            ELSE IF strip(parts[2]) \notin DOMAIN FloatTable THEN results
            ELSE DictSet(results, upper(strip(parts[1])),
                         Min(FloatTable[strip(parts[2])], 1000))

ParseIntentLine(results, line) ==
    IF ~StartsWith(line, "INTENT:") THEN results
    ELSE LET parts == split(strip(replace(line, "INTENT:", "")), ",")
         IN IF Len(parts) < 2 THEN results
            ELSE LET intent_name == upper(strip(parts[1]))
                 IN IF strip(parts[2]) \notin DOMAIN FloatTable THEN results
                    ELSE IF (\A i \in 1..Len(IntentType) : IntentType[i] # intent_name) THEN results
                    ELSE DictSet(results, intent_name,
                                 Min(FloatTable[strip(parts[2])], 1000))

RECURSIVE ParseIntentLines(_, _)
ParseIntentLines(results, lines) ==
    IF lines = <<>> THEN results
    ELSE ParseIntentLines(ParseIntentLine(results, Head(lines)), Tail(lines))

analyze_with_llm(response) ==
    ParseIntentLines(<<>>, split(strip(response), "\n"))

(* >= 15 in place of > 15 *)
UsesLlmFromFifteen(message, quick_intents) ==
    Len(message) >= 15 \/ Len(quick_intents) <= 1

UsesLlm(message, quick_intents) == Len(message) > 15 \/ Len(quick_intents) <= 1

RECURSIVE CombineOverwriting(_, _, _)
CombineOverwriting(combined_intents, intents, weight) ==
    IF intents = <<>> THEN combined_intents
    ELSE CombineOverwriting(DictSet(combined_intents, Head(intents).k,
                                    Head(intents).v * weight),
                            Tail(intents), weight)

RECURSIVE Combine(_, _, _)
Combine(combined_intents, intents, weight) ==
    IF intents = <<>> THEN combined_intents
    ELSE Combine(DictSet(combined_intents, Head(intents).k,
                         DictGet(combined_intents, Head(intents).k, 0)
                           + (Head(intents).v * weight)),
                 Tail(intents), weight)

CombinedUnit == 10000

Exceeds(score, thousandths) == score.num * 1000 > thousandths * score.den

ResolveGreetingAlways(combined_intents, primary_intent, secondary_intents) ==
    IF Exceeds(DictGet(combined_intents, "GREETING", [num |-> 0, den |-> 1]), 150)
    THEN secondary_intents \cup {"GREETING"}
    ELSE secondary_intents

ResolveGreetingAtSecondaryThreshold(combined_intents, primary_intent, secondary_intents) ==
    IF "GREETING" \notin ({primary_intent} \cup secondary_intents)
         /\ Exceeds(DictGet(combined_intents, "GREETING", [num |-> 0, den |-> 1]), 200)
    THEN secondary_intents \cup {"GREETING"}
    ELSE secondary_intents

ResolveGreeting(combined_intents, primary_intent, secondary_intents) ==
    IF "GREETING" \notin ({primary_intent} \cup secondary_intents)
         /\ Exceeds(DictGet(combined_intents, "GREETING", [num |-> 0, den |-> 1]), 150)
    THEN secondary_intents \cup {"GREETING"}
    ELSE secondary_intents

ResolveIntents(message, pattern_intents, keyword_intents, llm_intents, entities) ==
    LET weighted == Combine(Combine(Combine(<<>>, pattern_intents, 3),
                                    keyword_intents, 2),
                            llm_intents, 5)
        total_confidence == Sum([i \in 1..Len(weighted) |-> weighted[i].v])
        den == IF total_confidence > 0 THEN total_confidence ELSE CombinedUnit
        combined_intents == [i \in 1..Len(weighted) |->
                                [k |-> weighted[i].k,
                                 v |-> [num |-> weighted[i].v, den |-> den]]]
        sorted_intents == SortDesc(combined_intents,
                                   [i \in 1..Len(weighted) |-> weighted[i].v])
        primary_intent == IF sorted_intents = <<>> THEN "UNKNOWN"
                          ELSE sorted_intents[1].k
        primary_confidence == IF sorted_intents = <<>> THEN [num |-> 0, den |-> 1]
                              ELSE sorted_intents[1].v
        secondary_intents == {sorted_intents[i].k : i \in
                                 {j \in 2..Len(sorted_intents) :
                                     Exceeds(sorted_intents[j].v, 200)}}
    IN [primary_intent |-> primary_intent,
        secondary_intents |-> ResolveGreeting(combined_intents, primary_intent,
                                              secondary_intents),
        entities |-> entities,
        confidence |-> primary_confidence,
        modified_message |-> message,
        metadata |-> [confidence_breakdown |->
                         SelectSeq(combined_intents, LAMBDA c : Exceeds(c.v, 100))]]

RecognizeIntent(message, response) ==
    LET quick_intents == apply_pattern_matching(message)
        entities == extract_entities(message)
        keyword_intents == analyze_keywords(message)
        llm_analysis == IF UsesLlm(message, quick_intents)
                        THEN analyze_with_llm(response) ELSE <<>>
    IN ResolveIntents(message, quick_intents, keyword_intents, llm_analysis,
                      entities)

-----------------------------------------------------------------------------
(* Inputs of the MemoryManager operations *)

Texts == {S_new_note}

DateStrs == {"2024-03-29", "2024-3-29", "not-a-date", "2024-02-30"}

-----------------------------------------------------------------------------
(* Actions of the MemoryManager *)

store_entry ==
    \E entry \in {[date |-> DateTime(0, 0), raw_text |-> S_old_note],
                  [date |-> DateTime(0, 1), raw_text |-> None]} :
      \E entry_id \in uuid4(collection, issued) :
        /\ collection' = StoreEntry(collection, entry, entry_id)
        /\ issued' = issued \cup {entry_id}
        /\ last' = [op |-> "store_entry", entry |-> entry, ret |-> entry_id]
        /\ UNCHANGED <<deleted, now, chat_vars, pending, manager_attrs>>

update_entry ==
    \E entry_id \in IdSpace : \E new_text \in {S_old_note} :
        /\ collection' = UpdateEntry(collection, entry_id, new_text)
        /\ last' = [op |-> "update_entry", entry_id |-> entry_id,
                    new_text |-> new_text,
                    ret |-> UpdateEntryFound(collection, entry_id)]
        /\ UNCHANGED <<issued, deleted, now, chat_vars, pending, manager_attrs>>

add_entry_for_date_today ==
    \E date_str \in DateStrs : \E text \in Texts :
      \E entry_id \in uuid4(collection, issued) :
        /\ collection' = StoreEntry(collection,
                           [date |-> IF strptime_raises(date_str) THEN now
                                     ELSE strptime(date_str),
                            raw_text |-> text],
                           entry_id)
        /\ issued' = issued \cup {entry_id}
        /\ last' = [op |-> "add_entry_for_date", date_str |-> date_str,
                    text |-> text, ret |-> entry_id]
        /\ UNCHANGED <<deleted, now, chat_vars, pending, manager_attrs>>

add_entry_for_date ==
    \E date_str \in DateStrs : \E text \in Texts :
        \/ /\ strptime_raises(date_str)
           /\ last' = [op |-> "add_entry_for_date", date_str |-> date_str,
                       text |-> text, ret |-> ""]
           /\ UNCHANGED <<collection, issued, deleted, now, chat_vars, pending,
                          manager_attrs>>
        \/ /\ ~strptime_raises(date_str)
           /\ \E entry_id \in uuid4(collection, issued) :
                /\ collection' = StoreEntry(collection,
                                   [date |-> strptime(date_str), raw_text |-> text],
                                   entry_id)
                /\ issued' = issued \cup {entry_id}
                /\ last' = [op |-> "add_entry_for_date", date_str |-> date_str,
                            text |-> text, ret |-> entry_id]
           /\ UNCHANGED <<deleted, now, chat_vars, pending, manager_attrs>>

delete_entry ==
    \E entry_id \in IdSpace :
        /\ collection' = DeleteEntry(collection, entry_id)
        /\ deleted' = IF DeleteEntryFound(collection, entry_id)
                      THEN deleted \cup {entry_id} ELSE deleted
        /\ last' = [op |-> "delete_entry", entry_id |-> entry_id,
                    ret |-> DeleteEntryFound(collection, entry_id)]
        /\ UNCHANGED <<issued, now, chat_vars, pending, manager_attrs>>

get_all_entries ==
    \E limit \in {1, 2} : \E got \in CollectionGetLimit(collection, limit) :
        /\ last' = [op |-> "get_all_entries", limit |-> limit, got |-> got,
                    ret |-> GetAllEntries(collection, got)]
        /\ UNCHANGED <<collection, issued, deleted, now, chat_vars, pending,
                       manager_attrs>>

search ==
    \E query \in {"", S_note} : \E top_k \in {1, 2} :
      \E order \in CollectionQuery(collection, generate_embedding(query), top_k) :
        \E reads \in ClockReads(now, Len(order)) :
          /\ now' = LastRead(now, reads)
          /\ last' = [op |-> "search", query |-> query, top_k |-> top_k,
                      order |-> order, reads |-> reads,
                      ret |-> Search(collection, query, order, reads)]
          /\ UNCHANGED <<collection, issued, deleted, chat_vars, pending,
                         manager_attrs>>

Tick ==
    /\ now < MaxNow
    /\ now' = now + 1
    /\ UNCHANGED <<collection, issued, deleted, last, chat_vars, pending,
                   manager_attrs>>

Init ==
    /\ collection = <<>>
    /\ issued = {}
    /\ deleted = {}
    /\ now = StartNow
    /\ last = [op |-> "init"]
    /\ conversation_history = <<>>
    /\ chat_calls = 0
    /\ debug = FALSE
    /\ insights_file = NoInsights
    /\ pending = [op |-> "none"]
    /\ manager_attrs = {"client", "collection"}

Next ==
    \/ store_entry
    \/ update_entry
    \/ add_entry_for_date
    \/ delete_entry
    \/ get_all_entries
    \/ search
    \/ Tick

Spec == Init /\ [][Next]_vars

-----------------------------------------------------------------------------
(* MemoryManager.clear_collection.  The variable collection holds the
   records of the collection as persisted in data_dir; manager_attrs holds
   the attributes client and collection that the manager object has.  The
   file system and the store decide: removed, whether the walk over
   data_dir removed the database (a file that cannot be removed is skipped
   and the records stay); failure, the call of the try block that raises;
   fallback, the call of the except block that raises. *)
clear_collection ==
    \E removed \in BOOLEAN :
      \E failure \in {"none", "makedirs", "PersistentClient", "create_collection"} :
        \E fallback \in {"none", "PersistentClient", "get_or_create_collection"} :
          LET persisted == IF removed THEN <<>> ELSE collection
              (* create_collection raises when the name is still there *)
              raises == IF failure = "none" /\ ~removed
                        THEN "create_collection" ELSE failure
          IN /\ collection' = persisted
             /\ IF raises = "none"
                THEN /\ fallback = "none"
                     /\ manager_attrs' = {"client", "collection"}
                     /\ last' = [op |-> "clear_collection", before |-> collection,
                                 removed |-> removed, failure |-> raises,
                                 fallback |-> "not run", raised |-> None]
                ELSE /\ manager_attrs' =
                          CASE fallback = "none" -> {"client", "collection"}
                            [] fallback = "PersistentClient" -> {}
                            [] fallback = "get_or_create_collection" -> {"client"}
                     /\ last' = [op |-> "clear_collection", before |-> collection,
                                 removed |-> removed, failure |-> raises,
                                 fallback |-> fallback,
                                 raised |-> IF fallback = "none" THEN None
                                            ELSE "RuntimeError"]
             /\ UNCHANGED <<issued, deleted, now, chat_vars, pending>>

(* An operation on a manager that lost its collection attribute: store_entry
   and search raise AttributeError, get_all_entries catches it and returns
   the empty list *)
attribute_error ==
    /\ "collection" \notin manager_attrs
    /\ \E op \in {"store_entry", "search", "get_all_entries"} :
         last' = [op |-> op,
                  raised |-> IF op = "get_all_entries" THEN None
                             ELSE "AttributeError",
                  ret |-> <<>>]
    /\ UNCHANGED <<collection, issued, deleted, now, chat_vars, pending,
                   manager_attrs>>

NextClear ==
    \/ "collection" \in manager_attrs /\ store_entry
    \/ "collection" \in manager_attrs /\ get_all_entries
    \/ "collection" \in manager_attrs /\ search
    \/ clear_collection
    \/ attribute_error

SpecClear == Init /\ [][NextClear]_vars

-----------------------------------------------------------------------------
(* Inputs and actions of the IntentRecognizer.  pending is the call about to
   be made; the text-generation backend is the environment: a call to it
   returns some text or raises. *)

Messages ==
    {"hi", "ok thanks", "Sounds good", "delete it", "What happened?",
     "hi, what is it?", "hi, what is new?",
     "remember this, it's important",
     "Good morning! Please forget the old note",
     "hello, what's the key data for 2024-03-29?"}

PatternScores ==
    {<<[k |-> "UNKNOWN", v |-> 300]>>,
     <<[k |-> "GREETING", v |-> 250]>>,
     <<[k |-> "GREETING", v |-> 500], [k |-> "QUESTION", v |-> 250]>>,
     <<[k |-> "QUESTION", v |-> 500], [k |-> "RETRIEVAL", v |-> 250]>>,
     <<[k |-> "MEMORY_LOSS", v |-> 250], [k |-> "COMMAND", v |-> 250]>>}

KeywordScores ==
    {<<>>,
     <<[k |-> "RETRIEVAL", v |-> 400]>>,
     <<[k |-> "RETRIEVAL", v |-> 400], [k |-> "MEMORY_GAIN", v |-> 600]>>}

(* llm_intents: None and the empty dict are both <<>> *)
LlmScores ==
    {<<>>,
     <<[k |-> "GREETING", v |-> 800]>>,
     <<[k |-> "QUESTION", v |-> 800]>>,
     <<[k |-> "QUESTION", v |-> 900], [k |-> "GREETING", v |-> 300]>>,
     <<[k |-> "MEMORY_GAIN", v |-> 1000], [k |-> "RETRIEVAL", v |-> 0]>>,
     <<[k |-> "UNKNOWN", v |-> -500]>>}

recognize_intent ==
    /\ pending.op = "recognize_intent"
    /\ pending' = [op |-> "none"]
    /\ \/ /\ ~UsesLlm(pending.message, apply_pattern_matching(pending.message))
          /\ last' = [op |-> "recognize_intent", message |-> pending.message,
                      llm_called |-> FALSE, response |-> None, raised |-> None,
                      ret |-> RecognizeIntent(pending.message, None)]
       \/ /\ UsesLlm(pending.message, apply_pattern_matching(pending.message))
          /\ \E response \in {"", "no idea",
                              "INTENT: SMALLTALK, 0.9\nINTENT: RETRIEVAL, high\nINTENT: COMMAND",
                              "INTENT: SMALLTALK, 0.9\nINTENT: QUESTION, 0.8\nINTENT: COMMAND, high\nnote: INTENT: GREETING, 0.9",
                              "INTENT: MEMORY_GAIN, 0.9\nINTENT: QUESTION, 0.3",
                              " INTENT: greeting, 0.8\n INTENT: QUESTION, 0.3",
                              "INTENT: QUESTION, 0.8",
                              "INTENT: GREETING, 0.6",
                              "INTENT: QUESTION, 1.5\nINTENT: GREETING, 0.2",
                              "INTENT: QUESTION, 1.0\nINTENT: COMMAND, 1.0",
                              "INTENT: UNKNOWN, -0.5"} :
               last' = [op |-> "recognize_intent", message |-> pending.message,
                        llm_called |-> TRUE, response |-> response,
                        raised |-> None,
                        ret |-> RecognizeIntent(pending.message, response)]
       \/ /\ UsesLlm(pending.message, apply_pattern_matching(pending.message))
          /\ \E exc \in {"ConnectionError", "HTTPError"} :
               last' = [op |-> "recognize_intent", message |-> pending.message,
                        llm_called |-> TRUE, response |-> None, raised |-> exc,
                        ret |-> None]
    /\ UNCHANGED <<collection, issued, deleted, now, chat_vars, manager_attrs>>

resolve_intents ==
    /\ pending.op = "resolve_intents"
    /\ pending' = [op |-> "none"]
    /\ last' = [op |-> "resolve_intents",
                pattern_intents |-> pending.pattern_intents,
                keyword_intents |-> pending.keyword_intents,
                llm_intents |-> pending.llm_intents, raised |-> None,
                ret |-> ResolveIntents("", pending.pattern_intents,
                                       pending.keyword_intents,
                                       pending.llm_intents, <<>>)]
    /\ UNCHANGED <<collection, issued, deleted, now, chat_vars, manager_attrs>>

-----------------------------------------------------------------------------
(* ConversationManager.  The prompt sent to the text-generation backend is
   not built: what the backend answers is a choice of the environment.  A
   set is iterated in the order of SetOrder. *)

SetOrder ==
    <<"default", "retrieval", "memory_gain", "memory_loss">> \o IntentType

InSetOrder(S) == SelectSeq(SetOrder, LAMBDA x : x \in S)

MapIntentsQuestionAnywhere(intent_result) ==
    {"default"}
      \cup (IF intent_result.primary_intent \in {"RETRIEVAL", "QUESTION"}
            THEN {"retrieval"}
            ELSE IF intent_result.primary_intent = "MEMORY_GAIN" THEN {"memory_gain"}
            ELSE IF intent_result.primary_intent = "MEMORY_LOSS" THEN {"memory_loss"}
            ELSE {})
      \cup (IF intent_result.secondary_intents \cap {"RETRIEVAL", "QUESTION"} # {}
            THEN {"retrieval"} ELSE {})
      \cup (IF "MEMORY_GAIN" \in intent_result.secondary_intents
            THEN {"memory_gain"} ELSE {})
      \cup (IF "MEMORY_LOSS" \in intent_result.secondary_intents
            THEN {"memory_loss"} ELSE {})
      \cup (IF \E i \in 1..Len(intent_result.entities) :
                  /\ intent_result.entities[i].type = "IMPORTANCE"
                  /\ intent_result.entities[i].confidence > 600
            THEN {"memory_gain"} ELSE {})

map_intents_to_behaviors(intent_result) ==
    {"default"}
      \cup (IF intent_result.primary_intent \in {"RETRIEVAL", "QUESTION"}
            THEN {"retrieval"}
            ELSE IF intent_result.primary_intent = "MEMORY_GAIN" THEN {"memory_gain"}
            ELSE IF intent_result.primary_intent = "MEMORY_LOSS" THEN {"memory_loss"}
            ELSE {})
      \cup (IF "RETRIEVAL" \in intent_result.secondary_intents
            THEN {"retrieval"} ELSE {})
      \cup (IF "MEMORY_GAIN" \in intent_result.secondary_intents
            THEN {"memory_gain"} ELSE {})
      \cup (IF "MEMORY_LOSS" \in intent_result.secondary_intents
            THEN {"memory_loss"} ELSE {})
      \cup (IF \E i \in 1..Len(intent_result.entities) :
                  /\ intent_result.entities[i].type = "IMPORTANCE"
                  /\ intent_result.entities[i].confidence > 600
            THEN {"memory_gain"} ELSE {})

(* round(...) in place of int(...): the product is rounded to the nearest
   integer *)
NumToRemoveRounded(n) ==
    {IF k >= 1 THEN k ELSE 1 : k \in (((20 * n) + 50) \div 100)..(((30 * n) + 50) \div 100)}

(* max(1, int(random.uniform(0.2, 0.3) * len(tokens))) *)
NumToRemove(n) == {IF k >= 1 THEN k ELSE 1 : k \in ((20 * n) \div 100)..((30 * n) \div 100)}

(* random.choices in place of random.sample: an index can be drawn twice *)
IndicesToRemoveWithRepeats(raw_text) ==
    LET n == Len(split_whitespace(raw_text))
    IN IF n <= 5 THEN {{}}
       ELSE {S \in SUBSET (0..(n - 1)) :
                \E k \in NumToRemove(n) : Cardinality(S) \in 1..k}

(* random.sample(range(len(tokens)), num_to_remove), as a set of 0-based
   indices; the empty set for an entry that is skipped *)
IndicesToRemove(raw_text) ==
    LET n == Len(split_whitespace(raw_text))
        num_to_remove == NumToRemove(n)
    IN IF n <= 5 THEN {{}}
       ELSE {S \in SUBSET (0..(n - 1)) : Cardinality(S) \in num_to_remove}

(* The draws of one call: one set of indices for each entry found *)
RECURSIVE MemoryLossDraws(_)
MemoryLossDraws(relevant_entries) ==
    IF relevant_entries = <<>> THEN {<<>>}
    ELSE {<<S>> \o rest : S \in IndicesToRemove(Head(relevant_entries).entry.raw_text),
                          rest \in MemoryLossDraws(Tail(relevant_entries))}

RECURSIVE ModifiedTokens(_, _, _)
ModifiedTokens(tokens, i, indices_to_remove) ==
    IF tokens = <<>> THEN <<>>
    ELSE (IF i \in indices_to_remove THEN <<>> ELSE <<Head(tokens)>>)
           \o ModifiedTokens(Tail(tokens), i + 1, indices_to_remove)

ModifiedText(tokens, indices_to_remove) ==
    join(" ", ModifiedTokens(tokens, 0, indices_to_remove))

(* delete_entry in place of update_entry: the entry is dropped *)
RECURSIVE ApplyMemoryLossDeleting(_, _, _)
ApplyMemoryLossDeleting(coll, relevant_entries, draws) ==
    IF relevant_entries = <<>> THEN coll
    ELSE LET result == Head(relevant_entries)
         IN ApplyMemoryLossDeleting(
                IF result.entry.id = "" THEN coll
                ELSE IF Len(split_whitespace(result.entry.raw_text)) <= 5 THEN coll
                ELSE [id \in DOMAIN coll \ {result.entry.id} |-> coll[id]],
                Tail(relevant_entries), Tail(draws))

RECURSIVE ApplyMemoryLoss(_, _, _)
ApplyMemoryLoss(coll, relevant_entries, draws) ==
    IF relevant_entries = <<>> THEN coll
    ELSE LET result == Head(relevant_entries)
             tokens == split_whitespace(result.entry.raw_text)
         IN ApplyMemoryLoss(
                IF result.entry.id = "" THEN coll
                ELSE IF Len(tokens) <= 5 THEN coll
                ELSE UpdateEntry(coll, result.entry.id,
                                 ModifiedText(tokens, Head(draws))),
                Tail(relevant_entries), Tail(draws))

ContentToRemember(user_message, response) ==
    "User: " \o user_message \o "\nResponse: " \o response

PreviewLen == 500

RECURSIVE ContextEntries(_, _)
ContextEntries(memory_results, i) ==
    IF i > Len(memory_results) THEN ""
    ELSE "entry " \o str_int(i) \o " ("
           \o strftime(memory_results[i].entry.date) \o "):\n"
           \o SubSeq(memory_results[i].entry.raw_text, 1,
                     Min(PreviewLen, Len(memory_results[i].entry.raw_text)))
           \o (IF Len(memory_results[i].entry.raw_text) > PreviewLen
               THEN "..." ELSE "")
           \o "\n\n"
           \o ContextEntries(memory_results, i + 1)

RECURSIVE ContextItems(_)
ContextItems(items) ==
    IF items = <<>> THEN ""
    ELSE "- " \o Head(items) \o "\n" \o ContextItems(Tail(items))

BuildContext(memory_results, insights) ==
    LET use_windows == /\ ~insights.empty
                       /\ ~insights.has_error
                       /\ insights.has_windows
                       /\ insights.windows # <<>>
        window == insights.windows[1]
        has_context == memory_results # <<>> \/ use_windows
    IN (IF memory_results # <<>>
        THEN "relevant log entries:\n" \o ContextEntries(memory_results, 1)
        ELSE "")
         \o (IF use_windows /\ window.insights # <<>>
             THEN "key insights:\n" \o ContextItems(SubSeq(window.insights, 1, Min(3, Len(window.insights))))
             ELSE "")
         \o (IF use_windows /\ window.themes # <<>>
             THEN "\nthemes:\n" \o ContextItems(SubSeq(window.themes, 1, Min(3, Len(window.themes))))
             ELSE "")
         \o (IF has_context THEN ""
             ELSE "i don't have any data in my memory yet. you can use the 'rebuild database from notion' option to load your entries.")

(* OllamaClient._generate_stream: the chunks of the lines that parse *)
RECURSIVE GenerateStream(_)
GenerateStream(lines) ==
    IF lines = <<>> THEN ""
    ELSE (IF Head(lines).parses THEN Head(lines).chunk ELSE "")
           \o GenerateStream(Tail(lines))

GenerateResponseStripOnly(raw_response) == strip(raw_response)

GenerateResponse(raw_response) == lower(strip(raw_response))

RECURSIVE BreakdownText(_)
BreakdownText(items) ==
    IF items = <<>> THEN <<>>
    ELSE <<Head(items).k \o ": " \o format_2f(Head(items).v)>>
           \o BreakdownText(Tail(items))

DebugInfo(behaviors, intent_result) ==
    "\n\n[behaviors: " \o join(", ", InSetOrder(behaviors)) \o "]"
      \o "\n[primary intent: " \o intent_result.primary_intent \o " ("
      \o format_2f(intent_result.confidence) \o ")]"
      \o (IF intent_result.secondary_intents # {}
          THEN "\n[secondary intents: "
                 \o join(", ", InSetOrder(intent_result.secondary_intents)) \o "]"
          ELSE "")
      \o "\n[confidence: "
      \o join(", ", BreakdownText(intent_result.metadata.confidence_breakdown))
      \o "]"

ConnectionErrorText ==
    "sorry, i can't think right now. make sure ollama is running (http://localhost:11434)"

ExceptHandlerConnectionOnly(exc) ==
    IF isinstance(exc, "ConnectionError")
    THEN [caught |-> TRUE, error_msg |-> ConnectionErrorText]
    ELSE [caught |-> FALSE, error_msg |-> None]

ExceptHandler(exc) ==
    IF isinstance(exc, "ConnectionError")
    THEN [caught |-> TRUE, error_msg |-> ConnectionErrorText]
    ELSE IF isinstance(exc, "Exception")
    THEN [caught |-> TRUE,
          error_msg |-> "sorry, i'm having trouble thinking right now. error: "
                          \o str_exc(exc)]
    ELSE [caught |-> FALSE, error_msg |-> None]

-----------------------------------------------------------------------------
(* Inputs and actions of the ConversationManager.  One call of chat is one
   step; the operators below are its stages, last first. *)

UserMessages ==
    {"important note", "forget it", "what happened?", "forget what happened?"}

IntentReplies == {"", "INTENT: MEMORY_GAIN, 0.9\nINTENT: QUESTION, 0.3"}

ChatErrors ==
    [recognize_intent |-> {"ConnectionError"},
     search |-> {"RuntimeError"},
     generate |-> {"HTTPError"}]

ChatCall(user_message, stream) ==
    [op |-> "chat", user_message |-> user_message, stream |-> stream,
     stage |-> "recognize_intent", intent_result |-> None, behaviors |-> {},
     relevant_entries |-> <<>>, draws |-> <<>>, memory_results |-> <<>>,
     context |-> None, response |-> None, gained |-> "", exc |-> None,
     ret |-> None, raised |-> FALSE, before |-> collection]

ChatEnd(history, coll, iss, clock, call) ==
    /\ conversation_history' = history
    /\ collection' = coll
    /\ issued' = iss
    /\ now' = clock
    /\ last' = call

ChatExcept(history, coll, clock, call, stage, exc) ==
    IF ExceptHandler(exc).caught
    THEN ChatEnd(Append(history, [role |-> "assistant",
                                  content |-> ExceptHandler(exc).error_msg]),
                 coll, issued, clock,
                 [call EXCEPT !.stage = stage, !.exc = exc,
                              !.ret = ExceptHandler(exc).error_msg])
    ELSE ChatEnd(history, coll, issued, clock,
                 [call EXCEPT !.stage = stage, !.exc = exc, !.raised = TRUE])

ChatReturn(history, coll, iss, clock, call) ==
    ChatEnd(Append(history, [role |-> "assistant", content |-> call.response]),
            coll, iss, clock,
            [call EXCEPT !.stage = "return",
                         !.ret = call.response
                                   \o (IF debug
                                       THEN DebugInfo(call.behaviors,
                                                      call.intent_result)
                                       ELSE "")])

ChatMemoryGainAlways(history, coll, clock, call) ==
    IF strptime_raises(strftime(clock))
    THEN ChatReturn(history, coll, issued, clock, call)
    ELSE \E entry_id \in uuid4(coll, issued) :
           ChatReturn(history,
                      StoreEntry(coll,
                                 [date |-> strptime(strftime(clock)),
                                  raw_text |-> ContentToRemember(call.user_message,
                                                                 call.response)],
                                 entry_id),
                      issued \cup {entry_id}, clock,
                      [call EXCEPT !.gained = entry_id])

ChatMemoryGain(history, coll, clock, call) ==
    IF "memory_gain" \notin call.behaviors
    THEN ChatReturn(history, coll, issued, clock, call)
    ELSE IF strptime_raises(strftime(clock))
    THEN ChatReturn(history, coll, issued, clock, call)
    ELSE \E entry_id \in uuid4(coll, issued) :
           ChatReturn(history,
                      StoreEntry(coll,
                                 [date |-> strptime(strftime(clock)),
                                  raw_text |-> ContentToRemember(call.user_message,
                                                                 call.response)],
                                 entry_id),
                      issued \cup {entry_id}, clock,
                      [call EXCEPT !.gained = entry_id])

(* the memory-gain entry is written before the response is generated *)
ChatGenerateAfterGain(history, coll, clock, call) ==
    \/ \E exc \in ChatErrors.generate : \E entry_id \in uuid4(coll, issued) :
         ChatExcept(history,
                    IF "memory_gain" \in call.behaviors
                    THEN StoreEntry(coll,
                                    [date |-> strptime(strftime(clock)),
                                     raw_text |-> ContentToRemember(call.user_message,
                                                                    "")],
                                    entry_id)
                    ELSE coll,
                    clock, call, "generate_response", exc)
    \/ \E raw_response \in {"  Got it.\n"} :
         ChatMemoryGain(history, coll, clock,
             [call EXCEPT !.response = GenerateResponse(raw_response)])

ChatGenerate(history, coll, clock, call) ==
    \/ \E exc \in ChatErrors.generate :
         ChatExcept(history, coll, clock, call, "generate_response", exc)
    \/ /\ call.stream
       /\ \E lines \in {<<[parses |-> TRUE, chunk |-> "  Got "], [parses |-> FALSE, chunk |-> ""],
                        [parses |-> TRUE, chunk |-> "it.\n"]>>} :
            ChatMemoryGain(history, coll, clock,
                [call EXCEPT !.response = GenerateResponse(GenerateStream(lines))])
    \/ /\ ~call.stream
       /\ \E raw_response \in {"  Got it.\n"} :
            ChatMemoryGain(history, coll, clock,
                [call EXCEPT !.response = GenerateResponse(raw_response)])

ChatInsights(history, coll, clock, call) ==
    IF ~insights_file.parses
    THEN ChatExcept(history, coll, clock, call, "load_latest_insights",
                    "JSONDecodeError")
    ELSE ChatGenerate(history, coll, clock,
             [call EXCEPT !.context = BuildContext(call.memory_results,
                                                   insights_file)])

(* the search runs whatever the behaviors are *)
ChatRetrievalAlways(history, coll, clock, call) ==
    \/ \E exc \in ChatErrors.search :
         ChatExcept(history, coll, clock, call, "retrieval", exc)
    \/ \E order \in CollectionQuery(coll, generate_embedding(call.user_message), 3) :
         \E reads \in ClockReads(clock, Len(order)) :
           ChatInsights(history, coll, LastRead(clock, reads),
               [call EXCEPT !.memory_results =
                                Search(coll, call.user_message, order, reads)])

ChatRetrieval(history, coll, clock, call) ==
    IF "retrieval" \notin call.behaviors
    THEN ChatInsights(history, coll, clock, call)
    ELSE \/ \E exc \in ChatErrors.search :
              ChatExcept(history, coll, clock, call, "retrieval", exc)
         \/ \E order \in CollectionQuery(coll, generate_embedding(call.user_message), 3) :
              \E reads \in ClockReads(clock, Len(order)) :
                ChatInsights(history, coll, LastRead(clock, reads),
                    [call EXCEPT !.memory_results =
                                     Search(coll, call.user_message, order, reads)])

(* the retrieval search runs before the memory-loss mutation *)
ChatMemoryLossAfterRetrieval(history, coll, clock, call) ==
    IF "memory_loss" \notin call.behaviors
    THEN ChatRetrieval(history, coll, clock, call)
    ELSE \E order \in CollectionQuery(coll, generate_embedding(call.user_message), 2) :
           \E retrieved \in CollectionQuery(coll,
                                            generate_embedding(call.user_message), 3) :
             \E draws \in MemoryLossDraws(Search(coll, call.user_message, order,
                                                 [i \in 1..Len(order) |-> clock])) :
               ChatInsights(history,
                   ApplyMemoryLoss(coll,
                                   Search(coll, call.user_message, order,
                                          [i \in 1..Len(order) |-> clock]),
                                   draws),
                   clock,
                   [call EXCEPT !.relevant_entries =
                                    Search(coll, call.user_message, order,
                                           [i \in 1..Len(order) |-> clock]),
                                !.draws = draws,
                                !.memory_results =
                                    IF "retrieval" \in call.behaviors
                                    THEN Search(coll, call.user_message, retrieved,
                                                [i \in 1..Len(retrieved) |-> clock])
                                    ELSE <<>>])

ChatMemoryLoss(history, coll, clock, call) ==
    IF "memory_loss" \notin call.behaviors
    THEN ChatRetrieval(history, coll, clock, call)
    ELSE \/ \E exc \in ChatErrors.search :
              ChatExcept(history, coll, clock, call, "memory_loss", exc)
         \/ \E order \in CollectionQuery(coll, generate_embedding(call.user_message), 2) :
              \E reads \in ClockReads(clock, Len(order)) :
                \E draws \in MemoryLossDraws(Search(coll, call.user_message,
                                                    order, reads)) :
                  ChatRetrieval(history,
                      ApplyMemoryLoss(coll, Search(coll, call.user_message,
                                                   order, reads), draws),
                      LastRead(clock, reads),
                      [call EXCEPT !.relevant_entries =
                                       Search(coll, call.user_message, order, reads),
                                   !.draws = draws])

(* recognize_intent on the inputs of chat, computed once *)
ChatUsesLlm ==
    [message \in UserMessages |->
        UsesLlm(message, apply_pattern_matching(message))]

ChatIntentResults ==
    [message \in UserMessages |->
        [response \in IntentReplies \cup {None} |->
            RecognizeIntent(message, response)]]

ChatRecognizeIntent(history, call) ==
    \/ /\ ChatUsesLlm[call.user_message]
       /\ \E exc \in ChatErrors.recognize_intent :
            ChatExcept(history, collection, now, call, "recognize_intent", exc)
    \/ \E response \in (IF ChatUsesLlm[call.user_message]
                        THEN IntentReplies ELSE {None}) :
         ChatMemoryLoss(history, collection, now,
             [call EXCEPT !.intent_result =
                              ChatIntentResults[call.user_message][response],
                          !.behaviors =
                              map_intents_to_behaviors(
                                  ChatIntentResults[call.user_message][response])])

chat ==
    /\ chat_calls < MaxTurns
    /\ chat_calls' = chat_calls + 1
    /\ \E user_message \in UserMessages : \E stream \in BOOLEAN :
         ChatRecognizeIntent(
             Append(conversation_history,
                    [role |-> "user", content |-> user_message]),
             ChatCall(user_message, stream))
    /\ UNCHANGED <<deleted, debug, insights_file, pending, manager_attrs>>

clear_history ==
    /\ conversation_history' = <<>>
    /\ last' = [op |-> "clear_history"]
    /\ UNCHANGED <<collection, issued, deleted, now, chat_calls, debug,
                   insights_file, pending, manager_attrs>>

InitChat ==
    /\ collection = <<>>
    /\ issued = {}
    /\ deleted = {}
    /\ now = StartNow
    /\ last = [op |-> "init"]
    /\ conversation_history = <<>>
    /\ chat_calls = 0
    /\ \E config \in {[debug |-> FALSE, insights_file |-> NoInsights],
                      [debug |-> FALSE, insights_file |-> CorruptInsights],
                      [debug |-> TRUE, insights_file |-> ParserInsights]} :
         /\ debug = config.debug
         /\ insights_file = config.insights_file
    /\ pending = [op |-> "none"]
    /\ manager_attrs = {"client", "collection"}

NextChat ==
    \/ chat
    \/ clear_history

SpecChat == InitChat /\ [][NextChat]_vars

(* A conversation that starts on a store of four entries, with no insights
   report or with a report whose only window holds no insight and no theme
   (_parse_llm_response found no section in the model's answer) *)
InitTurn ==
    /\ collection =
         LET entry(text, date) ==
                 [embedding |-> generate_embedding(text), document |-> text,
                  metadata |-> [date |-> isoformat(date)]]
         IN (IdNames[3] :> entry("walked the dog in the park", DateTime(0, 0)))
              @@ (IdNames[4] :> entry("met sam", DateTime(0, 1)))
              @@ (IdNames[5] :> entry("paid rent today", DateTime(1, 0)))
              @@ (IdNames[6] :> entry("called mum today", DateTime(1, 1)))
    /\ issued = DOMAIN collection
    /\ deleted = {}
    /\ now = StartNow
    /\ last = [op |-> "init"]
    /\ conversation_history = <<>>
    /\ chat_calls = 0
    /\ debug = FALSE
    /\ insights_file \in
         {NoInsights,
          [parses |-> TRUE, empty |-> FALSE, has_error |-> FALSE,
           has_windows |-> TRUE, windows |-> <<[insights |-> <<>>, themes |-> <<>>]>>]}
    /\ pending = [op |-> "none"]
    /\ manager_attrs = {"client", "collection"}

SpecTurn == InitTurn /\ [][NextChat]_vars

-----------------------------------------------------------------------------
(* LogEntryProcessor.  A block is [type, rich_text], rich_text being the
   plain_text of its pieces; the value of a datetime(...) call is
   [kind, year, month, day], kind telling a datetime from a raised
   ValueError and from None. *)

(* int(s), s a string of decimal digits *)
RECURSIVE int(_)
int(s) ==
    IF s = "" THEN 0
    ELSE (int(SubSeq(s, 1, Len(s) - 1)) * 10)
           + (CHOOSE d \in 0..9 : CharAt(Digits, d + 1) = CharAt(s, Len(s)))

datetime(year, month, day) ==
    LET leap == (year % 4 = 0 /\ year % 100 # 0) \/ year % 400 = 0
        days_in_month == IF month = 2 THEN (IF leap THEN 29 ELSE 28)
                         ELSE IF month \in {4, 6, 9, 11} THEN 30 ELSE 31
    IN IF year \in 1..9999 /\ month \in 1..12 /\ day \in 1..days_in_month
       THEN [kind |-> "datetime", year |-> year, month |-> month, day |-> day]
       ELSE [kind |-> "ValueError", year |-> 0, month |-> 0, day |-> 0]

(* match.group(1) of re.search(self.date_patterns[k], text), None without a
   match: the leftmost match, a \d{1,2} taking two digits when it can *)
date_pattern_search(k, text) ==
    LET digit(i) == CharAt(text, i) \in DigitChars
        RunEnd(start, class) ==
            CHOOSE j \in start..(Len(text) + 1) :
                /\ CharAt(text, j) \notin class
                /\ \A i \in start..(j - 1) : CharAt(text, i) \in class
        months == {"Jan", "Feb", "Mar", "Apr", "May", "Jun", "Jul", "Aug", "Sep",
                   "Oct", "Nov", "Dec"}
        PairEnd(sep, i) ==
            LET first == IF digit(i) /\ digit(i + 1) /\ CharAt(text, i + 2) = sep
                              /\ digit(i + 3) THEN 2
                         ELSE IF digit(i) /\ CharAt(text, i + 1) = sep
                              /\ digit(i + 2) THEN 1
                         ELSE 0
            IN IF first = 0 THEN 0
               ELSE IF digit(i + first + 2) THEN i + first + 2 ELSE i + first + 1
        IsoEnd(i) ==
            IF /\ \A n \in {0, 1, 2, 3, 5, 6, 8, 9} : digit(i + n)
               /\ CharAt(text, i + 4) = "-"
               /\ CharAt(text, i + 7) = "-"
            THEN i + 9 ELSE 0
        TextEnd(i) ==
            LET day_end == IF digit(i) /\ digit(i + 1) THEN i + 2
                           ELSE IF digit(i) THEN i + 1 ELSE 0
                month_start == RunEnd(day_end, {" ", "\n", "\t"})
                month_end == RunEnd(month_start + 3, DOMAIN UpperOf)
                year_start == RunEnd(month_end, {" ", "\n", "\t"})
            IN IF /\ day_end # 0
                  /\ month_start > day_end
                  /\ SubSeq(text, month_start, month_start + 2) \in months
                  /\ year_start > month_end
                  /\ \A n \in 0..3 : digit(year_start + n)
               THEN year_start + 3 ELSE 0
        End(i) == CASE k = 1 -> PairEnd("/", i)
                    [] k = 2 -> PairEnd("-", i)
                    [] k = 3 -> IsoEnd(i)
                    [] k = 4 -> TextEnd(i)
        starts == {i \in 1..Len(text) : End(i) # 0}
    IN IF starts = {} THEN None
       ELSE LET i == CHOOSE i \in starts : \A j \in starts : i <= j
            IN SubSeq(text, i, End(i))

parse_date(text) ==
    LET month_map == [m \in {"jan", "feb", "mar", "apr", "may", "jun", "jul",
                             "aug", "sep", "oct", "nov", "dec"} |->
                         CHOOSE n \in 1..12 :
                             <<"jan", "feb", "mar", "apr", "may", "jun", "jul",
                               "aug", "sep", "oct", "nov", "dec">>[n] = m]
        no_date == [kind |-> "None", year |-> 0, month |-> 0, day |-> 0]
        Parse(date_str) ==
            IF Contains(date_str, "/") \/ Contains(date_str, "-")
            THEN LET parts == split(replace(date_str, "/", "-"), "-")
                 IN IF Len(parts) = 2
                    THEN datetime(2024, int(parts[1]), int(parts[2]))
                    ELSE IF Len(parts) = 3
                    THEN datetime(int(parts[1]), int(parts[2]), int(parts[3]))
                    ELSE no_date
            ELSE LET parts == split_whitespace(date_str)
                 IN IF Len(parts) = 3
                    THEN datetime(int(parts[3]),
                                  month_map[SubSeq(lower(parts[2]), 1, 3)],
                                  int(parts[1]))
                    ELSE no_date
        (* the first pattern, in the order of the list, whose match returns *)
        returning == {k \in 1..4 :
                        /\ date_pattern_search(k, text) # None
                        /\ Parse(date_pattern_search(k, text)).kind # "None"}
    IN IF returning = {} THEN no_date
       ELSE Parse(date_pattern_search(CHOOSE k \in returning :
                                         \A j \in returning : k <= j, text))

is_date_heading(block) ==
    /\ block.type \in {"heading_1", "heading_2", "heading_3"}
    /\ \E k \in 1..4 : date_pattern_search(k, join("", block.rich_text)) # None

get_raw_text(blocks) ==
    join("\n", [i \in 1..Len(SelectSeq(blocks, LAMBDA b : b.rich_text # <<>>)) |->
                   join("", SelectSeq(blocks, LAMBDA b : b.rich_text # <<>>)[i].rich_text)])

(* The loop of process_page over the blocks that are left, and its end *)
RECURSIVE ProcessPage(_, _, _, _)
ProcessPage(blocks, entries, current_blocks, current_date) ==
    LET saved == IF current_blocks # <<>> /\ current_date.kind = "datetime"
                 THEN Append(entries, [date |-> current_date,
                                       blocks |-> current_blocks,
                                       raw_text |-> get_raw_text(current_blocks)])
                 ELSE entries
    IN IF blocks = <<>> THEN [raised |-> None, entries |-> saved]
       ELSE IF is_date_heading(Head(blocks))
       THEN IF parse_date(join("", Head(blocks).rich_text)).kind = "ValueError"
            THEN [raised |-> "ValueError", entries |-> <<>>]
            ELSE ProcessPage(Tail(blocks), saved, <<Head(blocks)>>,
                             parse_date(join("", Head(blocks).rich_text)))
       ELSE IF current_date.kind = "datetime"
       THEN ProcessPage(Tail(blocks), entries, Append(current_blocks, Head(blocks)),
                        current_date)
       ELSE ProcessPage(Tail(blocks), entries, current_blocks, current_date)

-----------------------------------------------------------------------------
(* Calls of single functions: each behaviour makes one call, drawn at the
   start, on the store the call needs *)

(* Stores of one or two entries of 5, 6 and 20 whitespace-delimited tokens *)
MemoryLossStores ==
    LET entry(text) == [embedding |-> generate_embedding(text), document |-> text,
                        metadata |-> [date |-> isoformat(StartNow)]]
        t5 == "a b c d e"
        t6 == "a b  c\nd e f"
        t9 == "a b c d e f g h i"
        t20 == "a b c d e f g h i j k l m n o p q r s t"
    IN {(IdNames[1] :> entry(t5)), (IdNames[1] :> entry(t6)),
        (IdNames[1] :> entry(t9)), (IdNames[1] :> entry(t20)),
        (IdNames[1] :> entry(t6)) @@ (IdNames[2] :> entry(t9))
          @@ (IdNames[3] :> [embedding |-> generate_embedding("u v w x y z k"),
                             document |-> "u v w x y z k",
                             metadata |-> [date |-> isoformat(DateTime(0, 0))]]),
        (IdNames[1] :> entry(t5)) @@ (IdNames[2] :> entry(t6))}

apply_memory_loss ==
    /\ pending.op = "apply_memory_loss"
    /\ pending' = [op |-> "none"]
    /\ \/ \E exc \in ChatErrors.search :
            /\ last' = [op |-> "apply_memory_loss", message |-> pending.message,
                        before |-> collection, relevant_entries |-> <<>>,
                        draws |-> <<>>, raised |-> exc]
            /\ UNCHANGED <<collection, now>>
       \/ \E order \in CollectionQuery(collection,
                                       generate_embedding(pending.message), 2) :
            \E reads \in ClockReads(now, Len(order)) :
              \E draws \in MemoryLossDraws(Search(collection, pending.message,
                                                  order, reads)) :
                /\ collection' = ApplyMemoryLoss(collection,
                                     Search(collection, pending.message, order, reads),
                                     draws)
                /\ now' = LastRead(now, reads)
                /\ last' = [op |-> "apply_memory_loss", message |-> pending.message,
                            before |-> collection,
                            relevant_entries |->
                                Search(collection, pending.message, order, reads),
                            draws |-> draws, raised |-> None]
    /\ UNCHANGED <<issued, deleted, chat_vars, manager_attrs>>

(* IntentResults as _resolve_intents builds them, and with entities of other
   confidences than _extract_entities gives *)
IntentResults ==
    {r \in [primary_intent : {IntentType[i] : i \in 1..Len(IntentType)},
            secondary_intents : SUBSET {"GREETING", "QUESTION", "RETRIEVAL",
                                        "MEMORY_GAIN", "MEMORY_LOSS"},
            entities : {<<>>,
                        <<[type |-> "IMPORTANCE", confidence |-> 700]>>,
                        <<[type |-> "DATE", confidence |-> 800],
                          [type |-> "IMPORTANCE", confidence |-> 600]>>}] :
        r.primary_intent \notin r.secondary_intents}

call_map_intents_to_behaviors ==
    /\ pending.op = "map_intents_to_behaviors"
    /\ pending' = [op |-> "none"]
    /\ last' = [op |-> "map_intents_to_behaviors",
                intent_result |-> pending.intent_result, raised |-> None,
                ret |-> map_intents_to_behaviors(pending.intent_result)]
    /\ UNCHANGED <<collection, issued, deleted, now, chat_vars, manager_attrs>>

(* Pages handed to process_page: the page of tests/conftest.py, pages whose
   headings carry the other date formats, and pages with blocks before the
   first date heading or with no date heading at all *)
Pages ==
    LET block(type, text) == [type |-> type, rich_text |-> <<text>>]
        sample == block("paragraph", "Sample log entry for testing.")
    IN {<<block("heading_1", "2024-03-28"), sample>>,
        <<block("heading_1", "2012-03-28"), sample>>,
        <<block("heading_2", "3-28"), sample>>,
        <<block("heading_1", "2/30"), sample>>,
        <<block("heading_1", "Notes"), sample>>,
        <<block("paragraph", "3/28"), sample>>,
        <<block("paragraph", "intro"), block("heading_2", "3/28"), sample,
          [type |-> "divider", rich_text |-> <<>>],
          block("heading_3", "Fri 28  Mar"), block("paragraph", "kept"),
          block("heading_3", "28 March 2024"), block("paragraph", "b")>>}

process_page ==
    /\ pending.op = "process_page"
    /\ pending' = [op |-> "none"]
    /\ LET no_date == [kind |-> "None", year |-> 0, month |-> 0, day |-> 0]
           result == ProcessPage(pending.blocks, <<>>, <<>>, no_date)
       IN last' = [op |-> "process_page", blocks |-> pending.blocks,
                   raised |-> result.raised, ret |-> result.entries]
    /\ UNCHANGED <<collection, issued, deleted, now, chat_vars, manager_attrs>>

IntentCalls ==
    {[op |-> "recognize_intent", message |-> message] : message \in Messages}
      \cup [op : {"resolve_intents"}, pattern_intents : PatternScores,
            keyword_intents : KeywordScores, llm_intents : LlmScores]
      \cup [op : {"apply_memory_loss"}, message : {"forget it"},
            store : MemoryLossStores]
      \cup [op : {"map_intents_to_behaviors"}, intent_result : IntentResults]
      \cup [op : {"process_page"}, blocks : Pages]

InitIntent ==
    /\ pending \in IntentCalls
    /\ collection = (IF pending.op = "apply_memory_loss" THEN pending.store ELSE <<>>)
    /\ issued = DOMAIN collection
    /\ deleted = {}
    /\ now = StartNow
    /\ last = [op |-> "init"]
    /\ conversation_history = <<>>
    /\ chat_calls = 0
    /\ debug = FALSE
    /\ insights_file = NoInsights
    /\ manager_attrs = {"client", "collection"}

NextIntent ==
    \/ recognize_intent
    \/ resolve_intents
    \/ apply_memory_loss
    \/ call_map_intents_to_behaviors
    \/ process_page

SpecIntent == InitIntent /\ [][NextIntent]_vars

-----------------------------------------------------------------------------
(* Claims about the MemoryManager *)

SameRecords(coll1, coll2, ids) == \A i \in ids : coll1[i] = coll2[i]

(* C1: the list search returns is sorted by final_score, highest first, and
   each result's final_score is its similarity_score plus recency_weight
   times the recency score of the entry's date (at the clock reading taken
   for that result). *)
C1_SearchSortedByFinalScore ==
    last.op = "search" =>
        /\ \A i \in 1..(Len(last.ret) - 1) :
               last.ret[i].final_score >= last.ret[i + 1].final_score
        /\ \A i \in 1..Len(last.ret) : \E j \in 1..Len(last.order) :
               /\ last.order[j] = last.ret[i].entry.id
               /\ last.ret[i].final_score =
                      last.ret[i].similarity_score
                        + ((recency_weight
                              * calculate_recency_score(last.ret[i].entry.date,
                                                        last.reads[j])) \div Scale)

C1_Witness ==
    /\ last.op = "search"
    /\ Len(last.ret) = 2
    /\ last.ret[1].entry.id = last.order[2]
    /\ last.ret[1].similarity_score < last.ret[2].similarity_score
    /\ last.ret[1].final_score > last.ret[2].final_score

(* C2: in one search, of two returned entries with equal store distance and
   different dates, the one with the later date has a final_score greater
   than or equal to the other's. *)
C2_NewerScoresAtLeastOlder ==
    last.op = "search" =>
        \A i, j \in 1..Len(last.ret) :
            (/\ last.ret[i].similarity_score = last.ret[j].similarity_score
             /\ last.ret[i].entry.date > last.ret[j].entry.date)
            => last.ret[i].final_score >= last.ret[j].final_score

(* C3: update_entry with an id that is not in the collection returns False
   and leaves the collection as it was. *)
C3_UpdateMissingIsNoop ==
    [][(update_entry /\ last'.entry_id \notin DOMAIN collection)
         => (last'.ret = FALSE /\ collection' = collection)]_vars

C3_Witness ==
    /\ last.op = "update_entry"
    /\ last.entry_id \notin DOMAIN collection
    /\ last.ret = FALSE
    /\ collection # <<>>

(* C4: an id whose delete_entry returned True is never found again: it is
   not in the collection in any later state, store_entry and
   add_entry_for_date never return an id issued before, and update_entry and
   delete_entry on it return False. *)
C4_DeletedStaysDeleted ==
    /\ [](deleted \cap DOMAIN collection = {})
    /\ [][((store_entry \/ add_entry_for_date) /\ issued' # issued)
             => last'.ret \notin issued]_vars
    /\ [][((update_entry \/ delete_entry) /\ last'.entry_id \in deleted)
             => (last'.ret = FALSE /\ collection' = collection)]_vars

C4_Witness ==
    /\ deleted # {}
    /\ last.op = "store_entry"
    /\ last.ret \notin deleted
    /\ last.ret \in DOMAIN collection

(* C5: add_entry_for_date with a date string that does not parse returns the
   empty string and adds no record; with a date string that parses it adds
   exactly one record and returns its non-empty id. *)
C5_AddEntryForDate ==
    [][add_entry_for_date =>
         IF strptime_raises(last'.date_str)
         THEN last'.ret = "" /\ collection' = collection
         ELSE /\ last'.ret # ""
              /\ last'.ret \notin DOMAIN collection
              /\ DOMAIN collection' = DOMAIN collection \cup {last'.ret}
              /\ SameRecords(collection', collection, DOMAIN collection)
              /\ collection'[last'.ret].document = last'.text
              /\ fromisoformat(collection'[last'.ret].metadata.date)
                    = strptime(last'.date_str)]_vars

C5_Witness ==
    /\ last.op = "add_entry_for_date"
    /\ strptime_raises(last.date_str)
    /\ last.ret = ""
    /\ collection # <<>>

(* C6: update_entry on an id in the collection returns True, replaces that
   record's text by new_text, keeps its stored date, and leaves the record
   count and every other record unchanged. *)
C6_UpdateExisting ==
    [][(update_entry /\ last'.entry_id \in DOMAIN collection)
         => /\ last'.ret = TRUE
            /\ DOMAIN collection' = DOMAIN collection
            /\ collection'[last'.entry_id].document = last'.new_text
            /\ collection'[last'.entry_id].metadata
                  = collection[last'.entry_id].metadata
            /\ SameRecords(collection', collection,
                           DOMAIN collection \ {last'.entry_id})]_vars

C6_Witness ==
    /\ last.op = "update_entry"
    /\ last.ret = TRUE
    /\ Cardinality(DOMAIN collection) = 2
    /\ collection[last.entry_id].document = last.new_text
    /\ collection[last.entry_id].metadata.date = isoformat(DateTime(3, 0))

(* C7: get_all_entries(limit) returns at most limit entries, each a record
   of the collection with its text and date, newest first. *)
C7_GetAllEntries ==
    last.op = "get_all_entries" =>
        /\ Len(last.ret) <= last.limit
        /\ \A i \in 1..Len(last.ret) :
               /\ last.ret[i].id \in DOMAIN collection
               /\ last.ret[i].raw_text = collection[last.ret[i].id].document
               /\ isoformat(last.ret[i].date) = collection[last.ret[i].id].metadata.date
        /\ \A i \in 1..(Len(last.ret) - 1) : last.ret[i].date >= last.ret[i + 1].date

C7_Witness ==
    /\ last.op = "get_all_entries"
    /\ Len(last.ret) = 2
    /\ last.ret[1].id = last.got[2]
    /\ last.ret[1].date > last.ret[2].date

-----------------------------------------------------------------------------
(* Claims about the IntentRecognizer *)

MatchesNoPattern(message) ==
    \A i \in 1..Len(patterns) :
        PatternMatches(patterns[i].rules, strip(lower(message))) = 0

(* C9: when the message matches no pattern rule and no keyword and the model
   stage returns text with no parseable intent, recognize_intent returns
   primary_intent UNKNOWN with confidence exactly 1.0 and no secondary
   intents. *)
C9_UnknownAloneHasConfidenceOne ==
    (/\ last.op = "recognize_intent"
     /\ last.raised = None
     /\ MatchesNoPattern(last.message)
     /\ analyze_keywords(last.message) = <<>>
     /\ analyze_with_llm(last.response) = <<>>)
    => /\ last.ret.primary_intent = "UNKNOWN"
       /\ last.ret.confidence.den > 0
       /\ last.ret.confidence.num = last.ret.confidence.den
       /\ last.ret.secondary_intents = {}

C9_Witness ==
    /\ last.op = "recognize_intent"
    /\ last.raised = None
    /\ MatchesNoPattern(last.message)
    /\ analyze_keywords(last.message) = <<>>
    /\ last.llm_called
    /\ Contains(last.response, "INTENT:")
    /\ analyze_with_llm(last.response) = <<>>
    /\ last.ret.entities # <<>>
    /\ last.ret.primary_intent = "UNKNOWN"

(* C10: the secondary_intents of the IntentResult that _resolve_intents
   builds never contain its primary_intent, whatever the pattern, keyword
   and model-stage scores are, and also when the GREETING rule has run. *)
C10_SecondaryExcludesPrimary ==
    (last.op \in {"resolve_intents", "recognize_intent"} /\ last.raised = None)
    => last.ret.primary_intent \notin last.ret.secondary_intents

C10_Witness ==
    /\ last.op = "resolve_intents"
    /\ last.ret.primary_intent # "GREETING"
    /\ "GREETING" \in last.ret.secondary_intents
    /\ \E i \in 1..Len(last.ret.metadata.confidence_breakdown) :
         /\ last.ret.metadata.confidence_breakdown[i].k = "GREETING"
         /\ ~Exceeds(last.ret.metadata.confidence_breakdown[i].v, 200)

-----------------------------------------------------------------------------
(* Claims about the ConversationManager *)

IsApology(content) ==
    \/ content = ConnectionErrorText
    \/ StartsWith(content, "sorry, i'm having trouble thinking right now. error: ")

AlternatingRoles(history) ==
    \A i \in 1..Len(history) :
        history[i].role = (IF i % 2 = 1 THEN "user" ELSE "assistant")

(* C8: every call of chat returns a string and does not raise, and appends
   exactly two items to the conversation history: the user's message, then
   one assistant item holding the response, or the apology when a stage of
   the turn failed; so the history, empty at the start and after
   clear_history, always has an even number of items with roles alternating
   user, assistant. *)
C8_ChatAppendsUserThenAssistant ==
    /\ [][chat =>
            /\ last'.raised = FALSE
            /\ last'.ret # None
            /\ Len(conversation_history') = Len(conversation_history) + 2
            /\ SubSeq(conversation_history', 1, Len(conversation_history))
                  = conversation_history
            /\ conversation_history'[Len(conversation_history) + 1]
                  = [role |-> "user", content |-> last'.user_message]
            /\ conversation_history'[Len(conversation_history) + 2].role
                  = "assistant"
            /\ IF last'.exc = None
               THEN conversation_history'[Len(conversation_history) + 2].content
                      = last'.response
               ELSE /\ IsApology(last'.ret)
                    /\ conversation_history'[Len(conversation_history) + 2].content
                         = last'.ret]_vars
    /\ [](Len(conversation_history) % 2 = 0 /\ AlternatingRoles(conversation_history))
    /\ [][clear_history => conversation_history' = <<>>]_vars

C8_Witness ==
    /\ last.op = "chat"
    /\ Len(conversation_history) = 4
    /\ StartsWith(conversation_history[2].content,
                  "sorry, i'm having trouble thinking right now. error: ")
    /\ last.exc = None
    /\ last.gained \in DOMAIN collection
    /\ conversation_history[4].content = last.response
    /\ last.ret # last.response

-----------------------------------------------------------------------------
(* Claims about intent fusion *)

(* C11: for a message containing "remember this, it's important",
   recognize_intent returns a result with MEMORY_GAIN as primary intent or
   among the secondary intents, whatever the model stage answers. *)
C11_MemoryGainRecognized ==
    (/\ last.op = "recognize_intent"
     /\ last.raised = None
     /\ Contains(last.message, "remember this, it's important"))
    => "MEMORY_GAIN" \in {last.ret.primary_intent} \cup last.ret.secondary_intents

(* C20: _resolve_intents gives each intent the combined score 0.3 * pattern
   score + 0.2 * keyword score + 0.5 * model score, a missing score counting
   as 0; when the sum of the combined scores is positive every score is
   divided by it, so that the normalized scores add up to 1; the primary
   intent has the highest normalized score, the confidence of the result is
   that score, and the secondary intents are exactly the other intents whose
   normalized score is above 0.2, GREETING apart, which its special rule may
   add.  Scores are exact fractions here; the code computes them in floats. *)
C20_WeightedFusion ==
    last.op = "resolve_intents" =>
        LET Weighted(intent) == (3 * DictGet(last.pattern_intents, intent, 0))
                                  + (2 * DictGet(last.keyword_intents, intent, 0))
                                  + (5 * DictGet(last.llm_intents, intent, 0))
            scored == UNION {{d[i].k : i \in 1..Len(d)} :
                                d \in {last.pattern_intents, last.keyword_intents,
                                       last.llm_intents}}
            total == Sum([i \in 1..Len(IntentType) |-> Weighted(IntentType[i])])
            Normalized(intent) ==
                [num |-> Weighted(intent),
                 den |-> IF total > 0 THEN total ELSE CombinedUnit]
            Same(a, b) == a.num * b.den = b.num * a.den
            breakdown == last.ret.metadata.confidence_breakdown
            primary == last.ret.primary_intent
        IN /\ primary \in scored
           /\ \A intent \in scored : Weighted(primary) >= Weighted(intent)
           /\ Same(last.ret.confidence, Normalized(primary))
           /\ \A i \in 1..Len(breakdown) :
                 /\ breakdown[i].k \in scored
                 /\ Same(breakdown[i].v, Normalized(breakdown[i].k))
           /\ (total > 0 /\ Len(breakdown) = Cardinality(scored))
                 => Sum([i \in 1..Len(breakdown) |-> breakdown[i].v.num])
                      = breakdown[1].v.den
           /\ \A intent \in scored \ {primary} :
                 Exceeds(Normalized(intent), 200)
                   => intent \in last.ret.secondary_intents
           /\ \A intent \in last.ret.secondary_intents \ {"GREETING"} :
                 /\ intent \in scored \ {primary}
                 /\ Exceeds(Normalized(intent), 200)

(* A call in which all three stages score, the primary intent is scored by
   the pattern stage and by the model with a normalized score above 0.5,
   the scores of the confidence breakdown add up to 1, and an intent other
   than GREETING is secondary *)
C20_Witness ==
    /\ last.op = "resolve_intents"
    /\ last.pattern_intents # <<>>
    /\ last.keyword_intents # <<>>
    /\ last.llm_intents # <<>>
    /\ DictGet(last.pattern_intents, last.ret.primary_intent, 0) > 0
    /\ DictGet(last.llm_intents, last.ret.primary_intent, 0) > 0
    /\ Len(last.ret.metadata.confidence_breakdown) >= 2
    /\ Sum([i \in 1..Len(last.ret.metadata.confidence_breakdown) |->
               last.ret.metadata.confidence_breakdown[i].v.num])
         = last.ret.confidence.den
    /\ last.ret.secondary_intents \ {"GREETING"} # {}
    /\ Exceeds(last.ret.confidence, 500)

-----------------------------------------------------------------------------
(* Claims about the memory operations of the ConversationManager *)

TokenCount(text) == Len(split_whitespace(text))

(* C13: the memory-loss mutation leaves an entry of 5 or fewer
   whitespace-delimited tokens as it was, and an entry of exactly 20 tokens
   loses at least 2 and at most 6 tokens, for every random choice. *)
C13_MemoryLossTokenCounts ==
    (last.op = "apply_memory_loss" /\ last.raised = None)
    => \A i \in 1..Len(last.relevant_entries) :
         LET id == last.relevant_entries[i].entry.id
             before == TokenCount(last.before[id].document)
             after == TokenCount(collection[id].document)
         IN /\ before <= 5 => collection[id] = last.before[id]
            /\ before = 20 => (before - after) \in 2..6

C13_Witness ==
    /\ last.op = "apply_memory_loss"
    /\ last.raised = None
    /\ \E id \in DOMAIN collection :
         /\ TokenCount(last.before[id].document) = 20
         /\ TokenCount(collection[id].document) = 14
         /\ collection[id].document = "a c d e g h j l n o p q s t"

(* C14: a turn of chat whose behaviors contain memory_gain and whose
   response was generated writes exactly one new entry, dated today, with
   the text "User: <message>\nResponse: <response>" of that turn's message
   and lower-cased response; a turn without memory_gain writes no new
   entry. *)
C14_MemoryGainWritesOneEntry ==
    [][chat =>
         IF "memory_gain" \notin last'.behaviors
         THEN DOMAIN collection' = DOMAIN collection
         ELSE last'.exc = None
              => /\ Cardinality(DOMAIN collection' \ DOMAIN collection) = 1
                 /\ DOMAIN collection \subseteq DOMAIN collection'
                 /\ \A id \in DOMAIN collection' \ DOMAIN collection :
                      /\ collection'[id].document
                           = "User: " \o last'.user_message
                               \o "\nResponse: " \o last'.response
                      /\ lower(last'.response) = last'.response
                      /\ collection'[id].metadata.date
                           = [day |-> now' \div TicksPerDay, tick |-> 0]]_vars

C14_Witness ==
    /\ last.op = "chat"
    /\ last.exc = None
    /\ "memory_gain" \in last.behaviors
    /\ "memory_loss" \notin last.behaviors
    /\ last.stream
    /\ last.gained \in DOMAIN collection
    /\ Cardinality(DOMAIN collection) = 2
    /\ now % TicksPerDay # 0

(* C15: _map_intents_to_behaviors returns a set that holds "default", holds
   "retrieval" exactly when the primary intent is RETRIEVAL or QUESTION or
   RETRIEVAL is secondary, "memory_loss" exactly when MEMORY_LOSS is primary
   or secondary, "memory_gain" exactly when MEMORY_GAIN is primary or
   secondary or an IMPORTANCE entity has confidence above 0.6; QUESTION as a
   secondary intent only adds nothing. *)
C15_BehaviorFlags ==
    last.op = "map_intents_to_behaviors"
    => LET r == last.intent_result
           important == \E i \in 1..Len(r.entities) :
                           /\ r.entities[i].type = "IMPORTANCE"
                           /\ r.entities[i].confidence > 600
       IN /\ "default" \in last.ret
          /\ last.ret \subseteq {"default", "retrieval", "memory_loss", "memory_gain"}
          /\ "retrieval" \in last.ret
               <=> (\/ r.primary_intent \in {"RETRIEVAL", "QUESTION"}
                    \/ "RETRIEVAL" \in r.secondary_intents)
          /\ "memory_loss" \in last.ret
               <=> "MEMORY_LOSS" \in {r.primary_intent} \cup r.secondary_intents
          /\ "memory_gain" \in last.ret
               <=> (\/ "MEMORY_GAIN" \in {r.primary_intent} \cup r.secondary_intents
                    \/ important)

C15_Witness ==
    /\ last.op = "map_intents_to_behaviors"
    /\ last.intent_result.primary_intent = "GREETING"
    /\ last.intent_result.secondary_intents = {"QUESTION"}
    /\ Len(last.intent_result.entities) = 2
    /\ last.ret = {"default"}

-----------------------------------------------------------------------------
(* Claims about the text chat returns *)

NoUpperCase(text) == \A i \in 1..Len(text) : CharAt(text, i) \notin DOMAIN LowerOf

(* C16 as claimed: in blocking and in streaming mode, the string chat
   returns and the assistant item it appends to the history contain no
   upper-case letters. *)
C16_ReturnedTextLowerCased ==
    (last.op = "chat" /\ conversation_history # <<>>)
    => /\ NoUpperCase(last.ret)
       /\ NoUpperCase(conversation_history[Len(conversation_history)].content)

(* C16 as amended: in a turn of chat that ends without an exception, in
   blocking and in streaming mode, the assistant item appended to the
   history is the lower-cased response and holds no upper-case letters, and
   the string returned is that response, followed by the debug annotation
   when debug is on. *)
C16_ResponseLowerCased ==
    [][(chat /\ last'.exc = None) =>
          /\ NoUpperCase(last'.response)
          /\ conversation_history'[Len(conversation_history')].content
               = last'.response
          /\ StartsWith(last'.ret, last'.response)
          /\ ~debug => last'.ret = last'.response]_vars

C16_Witness ==
    /\ last.op = "chat"
    /\ last.exc = None
    /\ last.stream
    /\ debug
    /\ last.response = "got it."
    /\ ~NoUpperCase(last.ret)
    /\ conversation_history[Len(conversation_history)].content = "got it."

-----------------------------------------------------------------------------
(* Claims about MemoryManager.clear_collection *)

(* C17: clear_collection never leaves the store broken: also when removing
   the files fails in part or creating the collection fails, the call
   returns without raising and the manager holds a client and a collection
   again, on which store_entry, search and get_all_entries work. *)
C17_ClearLeavesUsableManager ==
    last.op = "clear_collection"
    => /\ last.raised = None
       /\ manager_attrs = {"client", "collection"}

(* C18: when clear_collection has returned, the collection holds no
   records, whether the collection was created anew or the fallback of the
   except block ran. *)
C18_ClearLeavesNoRecords ==
    (last.op = "clear_collection" /\ last.raised = None)
    => DOMAIN collection = {}

-----------------------------------------------------------------------------
(* Claims about LogEntryProcessor.process_page *)

(* C19: process_page starts a log entry at every date heading and gives it
   the date written in the heading: for a page that is a heading whose text
   is a date YYYY-MM-DD followed by a paragraph, it returns a non-empty list
   whose first entry has exactly that date and whose raw_text holds the
   text of the paragraph; and a block before the first date heading is in
   no entry. *)
C19_DateHeadingStartsEntry ==
    last.op = "process_page" =>
        LET blocks == last.blocks
            text == join("", blocks[1].rich_text)
            written == [kind |-> "datetime",
                        year |-> int(SubSeq(text, 1, 4)),
                        month |-> int(SubSeq(text, 6, 7)),
                        day |-> int(SubSeq(text, 9, 10))]
        IN /\ (/\ Len(blocks) = 2
               /\ blocks[1].type \in {"heading_1", "heading_2", "heading_3"}
               /\ date_pattern_search(3, text) = text
               /\ blocks[2].type = "paragraph")
              => /\ last.raised = None
                 /\ last.ret # <<>>
                 /\ last.ret[1].date = written
                 /\ Contains(last.ret[1].raw_text, join("", blocks[2].rich_text))
           /\ last.raised = None
              => \A i \in 1..Len(blocks) :
                    (\A j \in 1..i : ~is_date_heading(blocks[j]))
                    => \A n \in 1..Len(last.ret) :
                          \A m \in 1..Len(last.ret[n].blocks) :
                              last.ret[n].blocks[m] # blocks[i]

-----------------------------------------------------------------------------
(* Claims about the GREETING rule of _resolve_intents *)

(* The weighted score of GREETING before normalization, in 1/CombinedUnit *)
C21_RawGreeting ==
    (3 * DictGet(last.pattern_intents, "GREETING", 0))
      + (2 * DictGet(last.keyword_intents, "GREETING", 0))
      + (5 * DictGet(last.llm_intents, "GREETING", 0))

(* The score of GREETING that _resolve_intents holds after its
   normalization step: the weighted score over the sum of all weighted
   scores when that sum is positive, the weighted score itself otherwise *)
C21_NormalizedGreeting ==
    LET total == Sum([i \in 1..Len(IntentType) |->
                        (3 * DictGet(last.pattern_intents, IntentType[i], 0))
                          + (2 * DictGet(last.keyword_intents, IntentType[i], 0))
                          + (5 * DictGet(last.llm_intents, IntentType[i], 0))])
    IN [num |-> C21_RawGreeting,
        den |-> IF total > 0 THEN total ELSE CombinedUnit]

(* C21, as stated: when GREETING is neither the primary intent nor already
   a secondary intent (its normalized score is not above 0.2), it is added
   to the secondary intents exactly when its weighted score before
   normalization is above 0.15. *)
C21_GreetingAddedOnRawScore ==
    (/\ last.op = "resolve_intents"
     /\ last.ret.primary_intent # "GREETING"
     /\ ~Exceeds(C21_NormalizedGreeting, 200))
    => ("GREETING" \in last.ret.secondary_intents
          <=> C21_RawGreeting * 1000 > 150 * CombinedUnit)

(* C21, amended: when GREETING is neither the primary intent nor already a
   secondary intent, it is added to the secondary intents exactly when the
   score _resolve_intents holds for it after the normalization step is
   above 0.15. *)
C21_GreetingAddedOnNormalizedScore ==
    (/\ last.op = "resolve_intents"
     /\ last.ret.primary_intent # "GREETING"
     /\ ~Exceeds(C21_NormalizedGreeting, 200))
    => ("GREETING" \in last.ret.secondary_intents
          <=> Exceeds(C21_NormalizedGreeting, 150))

(* The rule adds GREETING on a normalized score in (0.15, 0.2] although its
   weighted score before normalization is not above 0.15 *)
C21_Witness ==
    /\ last.op = "resolve_intents"
    /\ last.ret.primary_intent # "GREETING"
    /\ ~Exceeds(C21_NormalizedGreeting, 200)
    /\ Exceeds(C21_NormalizedGreeting, 150)
    /\ C21_RawGreeting * 1000 <= 150 * CombinedUnit
    /\ "GREETING" \in last.ret.secondary_intents

-----------------------------------------------------------------------------
(* Claims about the memory-loss mutation *)

(* C22, as stated: for every entry of more than 5 whitespace-delimited
   tokens that the memory-loss mutation rewrites, the number of tokens
   removed is at least 20% and at most 30% of the entry's token count. *)
C22_RemovesTwentyToThirtyPercent ==
    (last.op = "apply_memory_loss" /\ last.raised = None)
    => \A i \in 1..Len(last.relevant_entries) :
         LET id == last.relevant_entries[i].entry.id
             before == TokenCount(last.before[id].document)
             removed == before - TokenCount(collection[id].document)
         IN before > 5 => /\ 100 * removed >= 20 * before
                          /\ 100 * removed <= 30 * before

(* C22, amended: for every such entry the number of tokens removed is at
   least 1, at most 30% of the entry's token count, and more than 20% of
   the token count minus one token: the product is truncated to an
   integer. *)
C22_RemovesTruncatedShare ==
    (last.op = "apply_memory_loss" /\ last.raised = None)
    => \A i \in 1..Len(last.relevant_entries) :
         LET id == last.relevant_entries[i].entry.id
             before == TokenCount(last.before[id].document)
             removed == before - TokenCount(collection[id].document)
         IN before > 5 => /\ removed >= 1
                          /\ 100 * (removed + 1) > 20 * before
                          /\ 100 * removed <= 30 * before

(* An entry of 9 tokens loses one token, less than 20% of them *)
C22_Witness ==
    /\ last.op = "apply_memory_loss"
    /\ last.raised = None
    /\ \E id \in DOMAIN collection :
         /\ TokenCount(last.before[id].document) = 9
         /\ collection[id].document = "a b c d f g h i"

(* a is b with some of its items left out, the others in their order *)
RECURSIVE IsSubsequence(_, _)
IsSubsequence(a, b) ==
    IF a = <<>> THEN TRUE
    ELSE IF b = <<>> THEN FALSE
    ELSE IF Head(a) = Head(b) THEN IsSubsequence(Tail(a), Tail(b))
    ELSE IsSubsequence(a, Tail(b))

(* C23: the memory-loss mutation never deletes: after it the collection
   holds the records of the same ids with the same dates as before, at
   most 2 records have another text, and the tokens of each record whose
   text changed are a strictly shorter subsequence of its tokens before. *)
C23_MemoryLossDegradesInPlace ==
    last.op = "apply_memory_loss" =>
        LET changed == {id \in DOMAIN last.before :
                           collection[id].document # last.before[id].document}
        IN /\ DOMAIN collection = DOMAIN last.before
           /\ \A id \in DOMAIN collection :
                 collection[id].metadata = last.before[id].metadata
           /\ Cardinality(changed) <= 2
           /\ \A id \in changed :
                 /\ TokenCount(collection[id].document)
                      < TokenCount(last.before[id].document)
                 /\ IsSubsequence(split_whitespace(collection[id].document),
                                  split_whitespace(last.before[id].document))

(* Of three records of more than 5 tokens two have lost tokens and the
   third, which the search left out, has its text *)
C23_Witness ==
    /\ last.op = "apply_memory_loss"
    /\ last.raised = None
    /\ Cardinality(DOMAIN collection) = 3
    /\ \A id \in DOMAIN collection : TokenCount(last.before[id].document) > 5
    /\ Cardinality({id \in DOMAIN collection :
                       collection[id].document # last.before[id].document}) = 2
    /\ \E id \in DOMAIN collection :
         /\ collection[id].document = "u w x y k"
         /\ last.before[id].document = "u v w x y z k"

-----------------------------------------------------------------------------
(* Claims about one turn of chat on a store that holds entries *)

(* C24: in a turn whose behaviors contain retrieval, chat passes to context
   assembly the results of one search of the user message, at most 3
   entries of the collection (3 when it holds that many), each once, and
   the context holds their text; in a turn without retrieval no memory
   entry is passed and the context holds the text of no entry, also when
   memory_loss ran its own search. *)
C24_RetrievalOnlyWhenAsked ==
    (last.op = "chat" /\ last.context # None) =>
        IF "retrieval" \in last.behaviors
        THEN /\ Len(last.memory_results)
                  = Min(3, Cardinality(DOMAIN collection \ {last.gained}))
             /\ \A i \in 1..Len(last.memory_results) :
                  LET result == last.memory_results[i]
                  IN /\ result.entry.id \in DOMAIN collection \ {last.gained}
                     /\ result.entry.raw_text
                          = collection[result.entry.id].document
                     /\ result.similarity_score
                          = Scale - (CosineDistance(
                                         generate_embedding(last.user_message),
                                         generate_embedding(result.entry.raw_text))
                                       \div 2)
                     /\ Contains(last.context, result.entry.raw_text)
                     /\ \A j \in 1..(i - 1) :
                          /\ last.memory_results[j].entry.id # result.entry.id
                          /\ last.memory_results[j].final_score
                               >= result.final_score
        ELSE /\ last.memory_results = <<>>
             /\ ~Contains(last.context, "relevant log entries")
             /\ \A id \in DOMAIN collection :
                  ~Contains(last.context, collection[id].document)

(* A turn with memory_loss and retrieval on a store of 4 entries: the
   memory-loss search gave 2 entries, 3 are passed to context assembly *)
C24_Witness ==
    /\ last.op = "chat"
    /\ last.exc = None
    /\ {"retrieval", "memory_loss"} \subseteq last.behaviors
    /\ Len(last.relevant_entries) = 2
    /\ Len(last.memory_results) = 3
    /\ Cardinality(DOMAIN collection) = 4

(* C25: _build_context returns the fixed text saying that no data is
   available yet whenever there are no memory results and no insight
   context, that is no insight and no theme in the first window of a report
   that is not an error; so the context it builds is never empty. *)
C25_FallbackWithoutContext ==
    (last.op = "chat" /\ last.context # None) =>
        /\ last.context # ""
        /\ (/\ last.memory_results = <<>>
            /\ \/ insights_file.has_error
               \/ insights_file.windows = <<>>
               \/ /\ insights_file.windows[1].insights = <<>>
                  /\ insights_file.windows[1].themes = <<>>)
           => StartsWith(last.context, "i don't have any data in my memory yet.")

-----------------------------------------------------------------------------
(* Claims about the model-based stage of recognize_intent *)

(* C26: recognize_intent calls the model-based stage exactly when the
   message is longer than 15 characters or the pattern stage gave at most
   one intent, the UNKNOWN default counting as one; when it is not called,
   the fusion uses the pattern and keyword scores only: the primary intent
   is one they score and the confidence is its share of 0.3 * pattern
   score + 0.2 * keyword score. *)
C26_ModelStageWhenLongOrInconclusive ==
    last.op = "recognize_intent" =>
        LET pattern_intents == apply_pattern_matching(last.message)
            keyword_intents == analyze_keywords(last.message)
            Weighted(intent) == (3 * DictGet(pattern_intents, intent, 0))
                                  + (2 * DictGet(keyword_intents, intent, 0))
            total == Sum([i \in 1..Len(IntentType) |-> Weighted(IntentType[i])])
        IN /\ last.llm_called
                <=> (Len(last.message) > 15 \/ Len(pattern_intents) <= 1)
           /\ ~last.llm_called
                => /\ last.response = None
                   /\ last.raised = None
                   /\ Weighted(last.ret.primary_intent) > 0
                   /\ last.ret.confidence.num * total
                        = Weighted(last.ret.primary_intent) * last.ret.confidence.den
                   /\ \A i \in 1..Len(last.ret.metadata.confidence_breakdown) :
                        Weighted(last.ret.metadata.confidence_breakdown[i].k) > 0

(* A message of exactly 15 characters with two pattern-matched intents is
   resolved without the model *)
C26_Witness ==
    /\ last.op = "recognize_intent"
    /\ Len(last.message) = 15
    /\ Len(apply_pattern_matching(last.message)) = 2
    /\ ~last.llm_called
    /\ last.ret.primary_intent = "GREETING"
    /\ last.ret.secondary_intents = {"QUESTION"}

(* The scores the lines of the form "INTENT: name, confidence" with a known
   name and a numeric confidence give, for the answers of the model whose
   other lines have an unknown name, a confidence that is no number, no
   confidence, or another start *)
C27_ScoredLines ==
    LET mixed == "INTENT: SMALLTALK, 0.9\nINTENT: QUESTION, 0.8\nINTENT: COMMAND, high\nnote: INTENT: GREETING, 0.9"
        dropped == "INTENT: SMALLTALK, 0.9\nINTENT: RETRIEVAL, high\nINTENT: COMMAND"
        indented == " INTENT: greeting, 0.8\n INTENT: QUESTION, 0.3"
    IN [response \in {"", "no idea", dropped, mixed, indented} |->
           CASE response = mixed -> <<[k |-> "QUESTION", v |-> 800]>>
             [] response = indented -> <<[k |-> "GREETING", v |-> 800]>>
             [] OTHER -> <<>>]

(* C27: parsing the answer of the model stage never raises: only the lines
   "INTENT: name, confidence" with a known intent name and a numeric
   confidence give a score; a line with an unknown name, a confidence that
   does not parse or another shape is dropped, and the other lines still
   count: the result is the fusion of the pattern scores, the keyword
   scores and the scores of those lines. *)
C27_MalformedLinesDropped ==
    (last.op = "recognize_intent" /\ last.response \in DOMAIN C27_ScoredLines)
    => LET pattern_intents == apply_pattern_matching(last.message)
           keyword_intents == analyze_keywords(last.message)
           Weighted(intent) ==
               (3 * DictGet(pattern_intents, intent, 0))
                 + (2 * DictGet(keyword_intents, intent, 0))
                 + (5 * DictGet(C27_ScoredLines[last.response], intent, 0))
           total == Sum([i \in 1..Len(IntentType) |-> Weighted(IntentType[i])])
           breakdown == last.ret.metadata.confidence_breakdown
       IN /\ last.raised = None
          /\ \E i \in 1..Len(IntentType) : IntentType[i] = last.ret.primary_intent
          /\ \A i \in 1..Len(IntentType) :
                Weighted(last.ret.primary_intent) >= Weighted(IntentType[i])
          /\ last.ret.confidence.num * total
               = Weighted(last.ret.primary_intent) * last.ret.confidence.den
          /\ \A i \in 1..Len(breakdown) :
                /\ \E j \in 1..Len(IntentType) : IntentType[j] = breakdown[i].k
                /\ breakdown[i].v.num * total
                     = Weighted(breakdown[i].k) * breakdown[i].v.den

(* An answer with a line of unknown name, a line whose confidence is no
   number and a line of another start: the one well-formed line decides *)
C27_Witness ==
    /\ last.op = "recognize_intent"
    /\ last.message = "ok thanks"
    /\ Len(split(last.response, "\n")) = 4
    /\ C27_ScoredLines[last.response] = <<[k |-> "QUESTION", v |-> 800]>>
    /\ last.raised = None
    /\ last.ret.primary_intent = "QUESTION"
    /\ last.ret.confidence = [num |-> 4000, den |-> 4900]

(* C28: within one turn of chat the steps run in the order intent
   recognition, memory-loss mutation, retrieval search, response
   generation, memory-gain write: a step is reached only when the steps
   before it have returned; the entries retrieved carry the text the
   mutation left; and the entry that memory_gain writes is none of the
   entries retrieved or degraded in that turn. *)
C28_StepsInOrder ==
    last.op = "chat" =>
        LET degraded == {last.relevant_entries[i].entry.id :
                            i \in 1..Len(last.relevant_entries)}
            retrieved == {last.memory_results[i].entry.id :
                             i \in 1..Len(last.memory_results)}
        IN /\ last.stage = "recognize_intent"
                => /\ last.behaviors = {}
                   /\ degraded = {}
           /\ last.stage \in {"recognize_intent", "memory_loss"}
                => /\ last.memory_results = <<>>
                   /\ last.context = None
           /\ last.stage = "retrieval"
                => /\ "memory_loss" \in last.behaviors
                        => Len(last.relevant_entries)
                             = Min(2, Cardinality(DOMAIN collection))
                   /\ last.context = None
           /\ last.stage # "return"
                => /\ last.response = None
                   /\ last.gained = ""
           /\ last.stage = "return"
                => /\ last.context # None
                   /\ last.response # None
           /\ \A i \in 1..Len(last.memory_results) :
                 last.memory_results[i].entry.raw_text
                   = collection[last.memory_results[i].entry.id].document
           /\ last.gained # ""
                => /\ last.gained \in DOMAIN collection
                   /\ last.gained \notin degraded \cup retrieved

(* A turn with memory_loss and retrieval: an entry that the mutation
   found with its text of 6 tokens is retrieved with the 5 that are left *)
C28_Witness ==
    /\ last.op = "chat"
    /\ last.exc = None
    /\ \E i \in 1..Len(last.relevant_entries) :
         \E j \in 1..Len(last.memory_results) :
            /\ last.relevant_entries[i].entry.id = last.memory_results[j].entry.id
            /\ last.relevant_entries[i].entry.raw_text = "walked the dog in the park"
            /\ last.memory_results[j].entry.raw_text = "walked the in the park"
            /\ Contains(last.context, "walked the in the park")

(* C29: a turn that ends with an apology because response generation
   failed writes no memory-gain entry, also when its behaviors contain
   memory_gain: the collection holds the records of the same ids as before
   the turn; and a memory-loss mutation applied earlier in the turn stays:
   every entry of more than 5 tokens that its search found has fewer
   tokens than before the turn. *)
C29_FailedGenerationKeepsLossOnly ==
    (/\ last.op = "chat"
     /\ last.stage = "generate_response"
     /\ last.exc # None)
    => /\ IsApology(last.ret)
       /\ last.gained = ""
       /\ DOMAIN collection = DOMAIN last.before
       /\ \A id \in DOMAIN collection :
             collection[id].metadata = last.before[id].metadata
       /\ \A id \in DOMAIN collection :
             IF /\ TokenCount(last.before[id].document) > 5
                /\ \E i \in 1..Len(last.relevant_entries) :
                      last.relevant_entries[i].entry.id = id
             THEN TokenCount(collection[id].document)
                    < TokenCount(last.before[id].document)
             ELSE collection[id].document = last.before[id].document

(* Generation fails in a turn with memory_gain and memory_loss after the
   mutation took a token from an entry *)
C29_Witness ==
    /\ last.op = "chat"
    /\ last.stage = "generate_response"
    /\ last.exc = "HTTPError"
    /\ {"memory_gain", "memory_loss"} \subseteq last.behaviors
    /\ \E id \in DOMAIN collection :
         /\ last.before[id].document = "walked the dog in the park"
         /\ collection[id].document = "walked the dog in park"
    /\ \A id \in DOMAIN collection : ~StartsWith(collection[id].document, "User: ")

(* C30: for every message and every answer of the model stage, each score
   the model stage records lies between 0 and 1, and so do the confidence
   of the result and every value of its confidence breakdown. *)
C30_ScoresBetweenZeroAndOne ==
    (last.op = "recognize_intent" /\ last.raised = None)
    => /\ last.llm_called
            => \A i \in 1..Len(analyze_with_llm(last.response)) :
                  analyze_with_llm(last.response)[i].v \in 0..1000
       /\ last.ret.confidence.den > 0
       /\ last.ret.confidence.num \in 0..last.ret.confidence.den
       /\ \A i \in 1..Len(last.ret.metadata.confidence_breakdown) :
             LET score == last.ret.metadata.confidence_breakdown[i].v
             IN score.den > 0 /\ score.num \in 0..score.den

====
